---- MODULE Spec2Model ----
(***************************************************************************)
(* Verification model of the transaction tagger core:                      *)
(*   - the JSON rule store (molecules/sop_manager.py),                     *)
(*   - the batch sync to the ledger (molecules/ynab_syncer.py and          *)
(*     atoms/api_update.py),                                               *)
(*   - the tiered categorization engines (organisms/categorization_agent,  *)
(*     organisms/recommendation_engine, templates/tagging_workflow),       *)
(*   - the locked markdown append (atoms/sop_updater.py).                  *)
(* Each subsystem has its own next-state relation over the shared          *)
(* variables; a subsystem's specification leaves the others' variables     *)
(* unchanged.                                                              *)
(***************************************************************************)
EXTENDS Integers, Sequences, FiniteSets, TLC

(***************************************************************************)
(* Bounds of the model                                                     *)
(***************************************************************************)
MaxUpdateCalls == 2
MaxBatch == 2
MaxAppendCalls == 2
MaxRules == 2
MaxLookups == 2
MaxCorrections == 2
MaxLen == 6

VARIABLES
    \* ---- rule store (sop_manager.py) ----
    fs,          \* file system: path -> file content
    now,         \* the last value datetime.utcnow() returned
    upc,         \* updater -> position inside update_sop_with_rule
    uargs,       \* updater -> arguments of the running call
    urules,      \* updater -> local list `rules`
    urule,       \* updater -> local `rule` object (mutated by the call)
    uexisting,   \* updater -> local `existing_rule` (NoRule for None)
    uout,        \* updater -> outcome of the last finished call
    ucalls,      \* number of update calls started so far
    docAtCall,   \* updater -> target document when the call started
    interfered,  \* updater -> another caller replaced the target since the call started
    \* ---- batch sync (ynab_syncer.py, api_update.py) ----
    spc,         \* position inside sync_approved_changes
    approved_changes,  \* the batch of the running call
    sidx,        \* index of the next change to process
    counters,    \* total / succeeded / failed / conflicts
    errors,      \* the errors list of the result
    status,      \* the status of the result
    ledgerCalls, \* positions of the changes sent to the ledger (client.put), in order
    learnCalls,  \* positions of the changes handed to record_agent_decision, in order
    budget_id,   \* the budget_id argument of the call ("" stands for every rejected value)
    outcomes,    \* per processed change: what client.put and record_agent_decision did
    \* ---- learned-rule append (sop_updater.py) ----
    sop,         \* the rule document categorization_rules.md: exists, text
    prior,       \* the text of the rule document before any append
    lockHolder,  \* the caller holding the exclusive lock on the rule document, or "none"
    apc,         \* appender -> position inside append_rule_to_sop
    atext,       \* appender -> rule_with_timestamp
    abuf,        \* appender -> text written to the handle and not yet flushed to the file
    apos,        \* appender -> file offset of its handle
    aelapsed,    \* appender -> time spent in _acquire_lock
    ares,        \* appender -> return value of the call
    acalls,      \* number of append_rule_to_sop calls made so far
    accepted,    \* the entries of the calls that returned True
    \* ---- decision engine (categorization_agent.py, recommendation_engine.py, tagging_workflow.py) ----
    epc,         \* position inside the engine call
    engine,      \* which entry point is running
    txn,         \* the transaction of the call
    sop_rules,   \* the loaded rule document: core_patterns, user_corrections
    history,     \* what the Historical Matcher holds for the payee
    attempt,     \* loop variable of _call_claude_with_retry
    waits,       \* the waits made between attempts
    decision,    \* the Decision returned
    raised,      \* the exception that reached the caller, or "none"
    histCalls,   \* calls of analyze_transaction made by this engine call
    llmCalls,    \* calls of the reasoning provider made by this engine call
    appendCalls, \* calls of append_rule_to_sop made by this engine call
    research,    \* how the research tier ended: "none", "unavailable", "found", "malformed",
                 \* or the step that failed: "call_failed", "parse_failed", "field_missing"
    answers,     \* what the reasoning provider did at each call of this decision, in order
    learnt,      \* the user correction learn_from_correction appended to the rule document
    \* ---- historical matcher (historical_match.py, pattern_analyzer.py) ----
    best,        \* the statistical store's best candidate for the payee
    lookup,      \* the last call: caller, arguments, what the database connection did
    found,       \* what the last call returned
    lookups,     \* number of calls made so far
    \* ---- learning feedback (learning_tracker.py, db_upsert.py) ----
    correction,  \* the last record_user_correction call: arguments, what the database did
    recorded,    \* what that call did: upsert status, rule update outcome, return value
    corrections, \* number of calls made so far
    \* ---- match scoring (sop_manager.py: get_sop_match, _calculate_confidence) ----
    scored       \* the last scoring: lengths, priority, confidence per strategy

storeVars == <<fs, now, upc, uargs, urules, urule, uexisting, uout, ucalls, docAtCall, interfered>>

syncVars ==
    <<spc, budget_id, approved_changes, sidx, counters, errors, status, ledgerCalls, learnCalls,
      outcomes>>

appVars == <<sop, prior, lockHolder, apc, atext, abuf, apos, aelapsed, ares, acalls, accepted>>

engVars == <<epc, engine, txn, sop_rules, history, attempt, waits, decision, raised,
             histCalls, llmCalls, appendCalls, research, answers, learnt>>

matchVars == <<best, lookup, found, lookups>>

trackVars == <<correction, recorded, corrections>>

scoreVars == <<scored>>

vars == <<storeVars, syncVars, appVars, engVars, matchVars, trackVars, scoreVars>>

(***************************************************************************)
(* Rule store: data                                                        *)
(***************************************************************************)
Updaters == {"u1", "u2"}
RuleIds == {"a", "b"}
BadSopId == "Bad_Id"
Bodies == {"q"}
TargetPath == "sop_rules.json"

\* SOPRule: the fields the store reads or writes; `body` stands for
\* name/patterns/actions/metadata, which update_sop_with_rule never touches.
SOPRule(id, body, created_at, updated_at, version) ==
    [id |-> id, body |-> body, created_at |-> created_at,
     updated_at |-> updated_at, version |-> version]

NoRule == SOPRule("", "", 0, 0, 0)

Absent == [exists |-> FALSE, rules |-> <<>>, closed |-> FALSE]

\* a complete JSON document holding `rules`
Document(rules) == [exists |-> TRUE, rules |-> rules, closed |-> TRUE]

\* a document cut after the first k rules (the closing brackets are missing)
PartialDocument(rules, k) == [exists |-> TRUE, rules |-> SubSeq(rules, 1, k), closed |-> FALSE]

\* versions a caller may present on the n-th call: every version stored so far
\* is at most n + 1
InputVersions(n) == 1..(n + 2)

NoArgs == [sop_id |-> "", version |-> 0, create_if_missing |-> FALSE]

\* re.match(r'^[a-z0-9-]+$', sop_id)
sop_id_format_ok(sop_id) == sop_id \in RuleIds

\* _load_sop_rules applied to the content of the target path
load_sop_rules(content) ==
    IF ~content.exists THEN [status |-> "ok", rules |-> <<>>]
    ELSE IF ~content.closed THEN [status |-> "corrupt", rules |-> <<>>]
    ELSE [status |-> "ok", rules |-> content.rules]

\* the path _save_sop_rules writes the new document to before the rename
save_write_path_direct(u) == TargetPath
save_write_path(u) == u

\* for i, r in enumerate(rules): if r.id == sop_id: ... break
existing_index(rules, sop_id) ==
    IF \E i \in 1..Len(rules) : rules[i].id = sop_id
    THEN CHOOSE i \in 1..Len(rules) :
            /\ rules[i].id = sop_id
            /\ \A j \in 1..(i-1) : rules[j].id # sop_id
    ELSE 0

\* optimistic locking: rule.version != existing_rule.version raises
version_check_skipped(rule, existing_rule) == TRUE
version_matches(rule, existing_rule) == rule.version = existing_rule.version

\* if not create_if_missing: raise KeyError
create_always(create_if_missing) == TRUE
create_allowed(create_if_missing) == create_if_missing

\* the create branch of update_sop_with_rule
create_rule(rule, sop_id, t) ==
    [rule EXCEPT !.id = sop_id, !.version = 1, !.created_at = t, !.updated_at = t]

\* the update branch of update_sop_with_rule (rule.id is left as supplied)
bump_rule_version_only(rule, existing_rule, t) ==
    [rule EXCEPT !.version = existing_rule.version + 1]
bump_rule(rule, existing_rule, t) ==
    [rule EXCEPT !.version = existing_rule.version + 1,
                 !.updated_at = t,
                 !.created_at = existing_rule.created_at]

\* datetime.utcnow(): the clock reads the last value read or a later one
utcnow(last) == {last, last + 1}

rename(files, src, dst) ==
    IF src = dst THEN files
    ELSE [files EXCEPT ![dst] = files[src], ![src] = Absent]

InitialRule == SOPRule("a", "p", 0, 0, 1)

(***************************************************************************)
(* Rule store: update_sop_with_rule, one action per step of the call       *)
(***************************************************************************)
StoreFrame ==
    UNCHANGED <<syncVars, appVars, engVars, matchVars, trackVars, scoreVars>>

Finish(u, outcome) ==
    /\ upc' = [upc EXCEPT ![u] = "done"]
    /\ uout' = [uout EXCEPT ![u] = outcome]

\* the local list `rules` goes out of scope when the call ends
Drop(u) == urules' = [urules EXCEPT ![u] = <<>>]

\* lines 491-508: argument checks, before any file access
update_begin(u) ==
    /\ upc[u] = "idle"
    /\ ucalls < MaxUpdateCalls
    /\ \E sop_id \in RuleIds \cup {BadSopId}, rid \in RuleIds, body \in Bodies,
          ver \in InputVersions(ucalls), wellformed \in BOOLEAN, validate \in BOOLEAN,
          create_if_missing \in BOOLEAN :
        IF ~sop_id_format_ok(sop_id) \/ ~wellformed
        THEN /\ Finish(u, "ValueError")
             /\ UNCHANGED <<uargs, urule>>
        ELSE /\ upc' = [upc EXCEPT ![u] = "load"]
             /\ uout' = uout
             /\ uargs' = [uargs EXCEPT ![u] = [sop_id |-> sop_id, version |-> ver,
                                               create_if_missing |-> create_if_missing]]
             /\ urule' = [urule EXCEPT ![u] = SOPRule(rid, body, now, now, ver)]
    /\ ucalls' = ucalls + 1
    /\ docAtCall' = [docAtCall EXCEPT ![u] = fs[TargetPath]]
    /\ interfered' = [interfered EXCEPT ![u] = FALSE]
    /\ UNCHANGED <<fs, now, urules, uexisting>>
    /\ StoreFrame

\* lines 510-514: rules = _load_sop_rules(); the call reads the target document
\* as every reader does (_get_sop_by_id, get_sop_match)
update_load(u) ==
    /\ upc[u] = "load"
    /\ LET r == load_sop_rules(fs[TargetPath]) IN
        IF r.status = "ok"
        THEN /\ urules' = [urules EXCEPT ![u] = r.rules]
             /\ upc' = [upc EXCEPT ![u] = "check"]
             /\ uout' = uout
        ELSE /\ Finish(u, "RuntimeError: Failed to load SOP rules")
             /\ Drop(u)
    /\ UNCHANGED <<fs, now, uargs, urule, uexisting, ucalls, docAtCall, interfered>>
    /\ StoreFrame

\* lines 516-557: find the rule, then create or update it in the local list
update_check(u) ==
    /\ upc[u] = "check"
    /\ LET sop_id == uargs[u].sop_id
           i == existing_index(urules[u], sop_id)
           existing_rule == IF i = 0 THEN NoRule ELSE urules[u][i]
       IN
        /\ uexisting' = [uexisting EXCEPT ![u] = existing_rule]
        /\ IF i = 0
           THEN IF ~create_allowed(uargs[u].create_if_missing)
                THEN /\ Finish(u, "KeyError")
                     /\ Drop(u)
                     /\ UNCHANGED <<now, urule>>
                ELSE /\ \E t \in utcnow(now) :
                          /\ now' = t
                          /\ urule' = [urule EXCEPT ![u] = create_rule(urule[u], sop_id, t)]
                     /\ urules' = [urules EXCEPT ![u] = Append(@, urule'[u])]
                     /\ upc' = [upc EXCEPT ![u] = "save"]
                     /\ uout' = uout
           ELSE IF ~version_matches(urule[u], existing_rule)
                THEN /\ Finish(u, "ConcurrentUpdateError")
                     /\ Drop(u)
                     /\ UNCHANGED <<now, urule>>
                ELSE /\ \E t \in utcnow(now) :
                          /\ now' = t
                          /\ urule' = [urule EXCEPT ![u] = bump_rule(urule[u], existing_rule, t)]
                     /\ urules' = [urules EXCEPT ![u][i] = urule'[u]]
                     /\ upc' = [upc EXCEPT ![u] = "save"]
                     /\ uout' = uout
    /\ UNCHANGED <<fs, uargs, ucalls, docAtCall, interfered>>
    /\ StoreFrame

\* _save_sop_rules lines 158-166: tempfile.mkstemp creates the file and json.dump
\* has written the first k rules of the document to it (k = 0: still empty)
save_dump_part(u) ==
    /\ upc[u] = "save"
    /\ \E k \in 0..Len(urules[u]) :
        fs' = [fs EXCEPT ![save_write_path(u)] = PartialDocument(urules[u], k)]
    /\ upc' = [upc EXCEPT ![u] = "dumping"]
    /\ UNCHANGED <<now, uargs, urules, urule, uexisting, uout, ucalls, docAtCall, interfered>>
    /\ StoreFrame

\* _save_sop_rules lines 165-166: the with block closes the complete document
save_dump_close(u) ==
    /\ upc[u] = "dumping"
    /\ fs' = [fs EXCEPT ![save_write_path(u)] = Document(urules[u])]
    /\ upc' = [upc EXCEPT ![u] = "rename"]
    /\ UNCHANGED <<now, uargs, urules, urule, uexisting, uout, ucalls, docAtCall, interfered>>
    /\ StoreFrame

\* _save_sop_rules line 169, then lines 565-571: os.rename and the success result
save_rename(u) ==
    /\ upc[u] = "rename"
    /\ fs' = rename(fs, save_write_path(u), TargetPath)
    /\ Finish(u, "ok")
    /\ Drop(u)
    /\ interfered' = [v \in Updaters |->
                        IF v # u /\ upc[v] # "idle" THEN TRUE ELSE interfered[v]]
    /\ UNCHANGED <<now, uargs, urule, uexisting, ucalls, docAtCall>>
    /\ StoreFrame

\* _save_sop_rules lines 172-179 and 562-563: an I/O error during the save;
\* the temp file is unlinked if it exists and RuntimeError is raised
save_fail(u) ==
    /\ upc[u] \in {"save", "dumping", "rename"}
    /\ fs' = IF upc[u] = "save" THEN fs
             ELSE [fs EXCEPT ![save_write_path(u)] = Absent]
    /\ Finish(u, "RuntimeError: Failed to save SOP rules")
    /\ Drop(u)
    /\ UNCHANGED <<now, uargs, urule, uexisting, ucalls, docAtCall, interfered>>
    /\ StoreFrame

\* the call has returned or raised; the caller may call again
update_return(u) ==
    /\ upc[u] = "done"
    /\ upc' = [upc EXCEPT ![u] = "idle"]
    /\ uargs' = [uargs EXCEPT ![u] = NoArgs]
    /\ urule' = [urule EXCEPT ![u] = NoRule]
    /\ uexisting' = [uexisting EXCEPT ![u] = NoRule]
    /\ docAtCall' = [docAtCall EXCEPT ![u] = Absent]
    /\ interfered' = [interfered EXCEPT ![u] = FALSE]
    /\ uout' = [uout EXCEPT ![u] = "none"]
    /\ UNCHANGED <<fs, now, urules, ucalls>>
    /\ StoreFrame

\* the store before any call, the rule document being one of docs
StoreInitFrom(docs) ==
    /\ fs \in {[p \in {TargetPath} \cup Updaters |-> IF p = TargetPath THEN d ELSE Absent] :
                d \in docs}
    /\ now = 0
    /\ upc = [u \in Updaters |-> "idle"]
    /\ uargs = [u \in Updaters |-> NoArgs]
    /\ urules = [u \in Updaters |-> <<>>]
    /\ urule = [u \in Updaters |-> NoRule]
    /\ uexisting = [u \in Updaters |-> NoRule]
    /\ uout = [u \in Updaters |-> "none"]
    /\ ucalls = 0
    /\ docAtCall = [u \in Updaters |-> Absent]
    /\ interfered = [u \in Updaters |-> FALSE]

StoreInit == StoreInitFrom({Absent, Document(<<InitialRule>>)})

StoreNext ==
    \/ \E u \in Updaters : update_begin(u)
    \/ \E u \in Updaters : update_load(u)
    \/ \E u \in Updaters : update_check(u)
    \/ \E u \in Updaters : save_dump_part(u)
    \/ \E u \in Updaters : save_dump_close(u)
    \/ \E u \in Updaters : save_rename(u)
    \/ \E u \in Updaters : save_fail(u)
    \/ \E u \in Updaters : update_return(u)



(***************************************************************************)
(* Batch sync: sync_approved_changes and the api_update atoms              *)
(***************************************************************************)
\* a subtransaction dict; 'amount' may be absent (st.get('amount', 0))
Sub(a) == [has_amount |-> TRUE, amount |-> a]
SubNoAmount == [has_amount |-> FALSE, amount |-> 0]

\* an approved change; the transaction id of a change is its position in the batch
SingleChange(fields_ok) ==
    [is_split |-> FALSE, has_id |-> TRUE, fields_ok |-> fields_ok,
     amount |-> 0, subtransactions |-> <<>>]
SplitChange(fields_ok, amount, subs) ==
    [is_split |-> TRUE, has_id |-> TRUE, fields_ok |-> fields_ok,
     amount |-> amount, subtransactions |-> subs]
ChangeWithoutId == [SingleChange(TRUE) EXCEPT !.has_id = FALSE]

SplitLists ==
    { <<>>,
      <<Sub(-10000), Sub(-5000)>>,
      <<Sub(-10000), Sub(-6000)>>,
      <<Sub(-15000)>>,
      <<Sub(-10000)>>,
      <<Sub(-15000), SubNoAmount>> }

Changes ==
    {SingleChange(TRUE), SingleChange(FALSE), ChangeWithoutId,
     SplitChange(FALSE, -15000, <<>>), SplitChange(TRUE, 0, <<>>)}
    \cup {SplitChange(TRUE, -15000, subs) : subs \in SplitLists}

RECURSIVE Batches(_)
Batches(n) ==
    IF n = 0 THEN {<<>>}
    ELSE Batches(n - 1) \cup
         {Append(b, c) : b \in {x \in Batches(n - 1) : Len(x) = n - 1}, c \in Changes}

\* the version conflict (HTTP 409) client.put reports by raising YNABConflictError
YNABConflictError == "conflict"
\* what client.put does with one request
LedgerResponses ==
    {"ok", YNABConflictError, "unauthorized", "not_found", "rate_limited", "network",
     "unexpected"}
\* YNABAPIError and its subclasses
is_YNABAPIError(resp) == resp \in {"unauthorized", "not_found", "rate_limited", "network"}

abs(n) == IF n < 0 THEN -n ELSE n

\* sum(st.get('amount', 0) for st in subtransactions)
RECURSIVE subtransaction_sum(_)
subtransaction_sum(subs) ==
    IF subs = <<>> THEN 0
    ELSE (IF Head(subs).has_amount THEN Head(subs).amount ELSE 0)
         + subtransaction_sum(Tail(subs))

\* the difference reported in the ValueError of a sum mismatch
difference(actual_sum, expected_total) == abs(actual_sum - expected_total)

\* actual_sum != expected_total raises
amounts_close(actual_sum, expected_total) == abs(actual_sum - expected_total) <= 1000
amounts_unchecked(actual_sum, expected_total) == TRUE
amounts_equal(actual_sum, expected_total) == actual_sum = expected_total

\* _validate_subtransaction_amounts: "ok" or the ValueError it raises
validate_subtransaction_amounts(subtransactions, expected_total) ==
    IF subtransactions = <<>>
    THEN [raised |-> "empty", difference |-> 0]
    ELSE LET actual_sum == subtransaction_sum(subtransactions) IN
         IF ~amounts_equal(actual_sum, expected_total)
         THEN [raised |-> "mismatch", difference |-> difference(actual_sum, expected_total)]
         ELSE [raised |-> "ok", difference |-> 0]

\* outcome of one api_update call: whether client.put was called, and the
\* return value or the exception that leaves the atom
put_outcome_conflict_raises(resp) ==
    IF resp = "ok" THEN [sent |-> TRUE, result |-> "True", difference |-> 0]
    ELSE IF resp = YNABConflictError \/ is_YNABAPIError(resp)
    THEN [sent |-> TRUE, result |-> "YNABAPIError", difference |-> 0]
    ELSE [sent |-> TRUE, result |-> "Exception", difference |-> 0]
put_outcome(resp) ==
    IF resp = "ok" THEN [sent |-> TRUE, result |-> "True", difference |-> 0]
    ELSE IF resp = YNABConflictError THEN [sent |-> TRUE, result |-> "False", difference |-> 0]
    ELSE IF is_YNABAPIError(resp) THEN [sent |-> TRUE, result |-> "YNABAPIError", difference |-> 0]
    ELSE [sent |-> TRUE, result |-> "Exception", difference |-> 0]

update_transaction_category(change, resp) == put_outcome(resp)

update_split_transaction(change, resp) ==
    LET v == validate_subtransaction_amounts(change.subtransactions, change.amount) IN
    IF v.raised # "ok"
    THEN [sent |-> FALSE, result |-> "ValueError", difference |-> v.difference]
    ELSE put_outcome(resp)

SyncError(transaction_id, type, diff) ==
    [transaction_id |-> transaction_id, type |-> type, difference |-> diff]
NoCounters == [total |-> 0, succeeded |-> 0, failed |-> 0, conflicts |-> 0]

\* budget_id arguments: an empty (rejected) one and a usable one
BudgetIds == {"", "budget-abc-123"}

\* index of the first change _validate_inputs rejects, 0 if none
first_invalid_head_only(changes) ==
    IF changes # <<>> /\ (~changes[1].has_id \/ ~changes[1].fields_ok) THEN 1 ELSE 0
first_invalid(changes) ==
    IF \E i \in 1..Len(changes) : ~changes[i].has_id \/ ~changes[i].fields_ok
    THEN CHOOSE i \in 1..Len(changes) :
            /\ ~changes[i].has_id \/ ~changes[i].fields_ok
            /\ \A j \in 1..(i-1) : changes[j].has_id /\ changes[j].fields_ok
    ELSE 0

\* _validate_inputs: the one error of the failed result, or "valid"
validate_inputs(budget_ok, changes) ==
    IF ~budget_ok THEN [valid |-> FALSE, error |-> SyncError(0, "validation_error", 0)]
    ELSE IF changes = <<>> THEN [valid |-> FALSE, error |-> SyncError(0, "validation_error", 0)]
    ELSE LET i == first_invalid(changes) IN
         IF i = 0 THEN [valid |-> TRUE, error |-> SyncError(0, "none", 0)]
         ELSE [valid |-> FALSE,
               error |-> SyncError(IF changes[i].has_id THEN i ELSE 0, "validation_error", 0)]

\* step 4 of sync_approved_changes
final_status_partial_if_any_succeeded(c, errs) ==
    IF c.succeeded = 0 /\ c.total > 0 THEN "failed"
    ELSE IF c.failed > 0 \/ c.conflicts > 0 \/ Len(errs) > 0 THEN "partial"
    ELSE "success"
final_status(c, errs) ==
    IF c.failed > 0 \/ (c.succeeded = 0 /\ c.total > 0) THEN "failed"
    ELSE IF c.conflicts > 0 \/ Len(errs) > 0 THEN "partial"
    ELSE "success"

\* what record_agent_decision does when it is called: it stores the decision
\* and returns True, returns False, or an exception leaves the inner try block
LearningOutcomes == {"recorded", "false", "raises"}
ItemOutcome(resp, learn) == [response |-> resp, learning |-> learn]

\* the inner try/except around record_agent_decision: the return value is
\* ignored and an exception is logged as a warning; errors is not touched
learning_failure_recorded(errs, transaction_id, learn) ==
    IF learn = "recorded" THEN errs
    ELSE Append(errs, SyncError(transaction_id, "unexpected_error", 0))
after_learning(errs, transaction_id, learn) == errs

\* else branch of "if success": the conflict is counted and recorded
on_conflict_counted_as_failure(c, errs, transaction_id) ==
    [counters |-> [c EXCEPT !.conflicts = @ + 1, !.failed = @ + 1],
     errors |-> Append(errs, SyncError(transaction_id, "conflict", 0))]
on_conflict(c, errs, transaction_id) ==
    [counters |-> [c EXCEPT !.conflicts = @ + 1],
     errors |-> Append(errs, SyncError(transaction_id, "conflict", 0))]

\* the three except clauses of the loop body: ValueError, YNABAPIError, Exception
on_exception_not_recorded(c, errs, transaction_id, o) ==
    [counters |-> [c EXCEPT !.failed = @ + 1], errors |-> errs]
on_exception(c, errs, transaction_id, o) ==
    [counters |-> [c EXCEPT !.failed = @ + 1],
     errors |-> Append(errs,
                    SyncError(transaction_id,
                        IF o.result = "ValueError" THEN "validation_error"
                        ELSE IF o.result = "YNABAPIError" THEN "api_error"
                        ELSE "unexpected_error",
                        o.difference))]

SyncFrame ==
    UNCHANGED <<storeVars, appVars, engVars, matchVars, trackVars, scoreVars>>

\* the call, its input validation and the initialisation of the counters
sync_start ==
    /\ spc = "idle"
    /\ \E budget \in BudgetIds, changes \in Batches(MaxBatch) :
        LET v == validate_inputs(budget # "", changes) IN
        /\ budget_id' = budget
        /\ approved_changes' = changes
        /\ counters' = [NoCounters EXCEPT !.total = IF v.valid THEN Len(changes) ELSE 0]
        /\ IF v.valid
           THEN spc' = "loop" /\ errors' = <<>> /\ status' = "none"
           ELSE spc' = "done" /\ errors' = <<v.error>> /\ status' = "failed"
    /\ sidx' = 1
    /\ ledgerCalls' = <<>>
    /\ learnCalls' = <<>>
    /\ outcomes' = <<>>
    /\ SyncFrame

\* one iteration of the loop over approved_changes
sync_item ==
    /\ spc = "loop"
    /\ sidx <= Len(approved_changes)
    /\ \E resp \in LedgerResponses, learn \in LearningOutcomes :
        LET change == approved_changes[sidx]
            o == IF change.is_split THEN update_split_transaction(change, resp)
                 ELSE update_transaction_category(change, resp)
        IN
        /\ ledgerCalls' = IF o.sent THEN Append(ledgerCalls, sidx) ELSE ledgerCalls
        /\ outcomes' = Append(outcomes,
                           ItemOutcome(IF o.sent THEN resp ELSE "not_sent",
                                       IF o.result = "True" THEN learn ELSE "not_called"))
        /\ IF o.result = "True"
           THEN /\ counters' = [counters EXCEPT !.succeeded = @ + 1]
                /\ errors' = after_learning(errors, sidx, learn)
                /\ learnCalls' = Append(learnCalls, sidx)
           ELSE LET r == IF o.result = "False" THEN on_conflict(counters, errors, sidx)
                         ELSE on_exception(counters, errors, sidx, o)
                IN /\ learnCalls' = learnCalls
                   /\ counters' = r.counters
                   /\ errors' = r.errors
    /\ sidx' = sidx + 1
    /\ UNCHANGED <<spc, approved_changes, status, budget_id>>
    /\ SyncFrame

\* the status and the result once the loop is over
sync_finish ==
    /\ spc = "loop"
    /\ sidx > Len(approved_changes)
    /\ status' = final_status(counters, errors)
    /\ spc' = "done"
    /\ UNCHANGED <<approved_changes, sidx, counters, errors, ledgerCalls, learnCalls, outcomes,
                   budget_id>>
    /\ SyncFrame

SyncInit ==
    /\ spc = "idle"
    /\ approved_changes = <<>>
    /\ sidx = 1
    /\ counters = NoCounters
    /\ errors = <<>>
    /\ status = "none"
    /\ ledgerCalls = <<>>
    /\ learnCalls = <<>>
    /\ outcomes = <<>>
    /\ budget_id = ""

SyncNext ==
    \/ sync_start
    \/ sync_item
    \/ sync_finish

(***************************************************************************)
(* Learned-rule append: append_rule_to_sop under concurrent callers.       *)
(* Text is a sequence of characters; a rule entry is shorter than the I/O  *)
(* buffer of its file handle, so f.write(rule) stays in the handle until   *)
(* the next seek or the close of the handle.                               *)
(***************************************************************************)
Appenders == {"p1", "p2"}
NL == "\n"
\* timeout=5 of _acquire_lock
LockTimeout == 5
\* the characters of the entry of the c-th call, and of its timestamp field
PayloadChars == <<"A", "B", "C", "D", "E">>
StampChars == <<"a", "b", "c", "d", "e">>
Payload(c) == PayloadChars[c]
Stamp(c) == StampChars[c]

RuleShapes == {"bare", "stamped", "stamped_open"}
\* rule_content of the c-th call
RuleContent(shape, c) ==
    IF shape = "bare" THEN <<Payload(c)>>
    ELSE IF shape = "stamped" THEN <<Payload(c), Stamp(c), NL>>
    ELSE <<Payload(c), Payload(c), Stamp(c)>>

InitialTexts == { <<>>, <<"h">>, <<"h", NL>>, <<"h", NL, NL>> }
MissingFile == [exists |-> FALSE, text |-> <<>>]
File(text) == [exists |-> TRUE, text |-> text]

\* str.rstrip('\n')
RECURSIVE rstrip_newlines(_)
rstrip_newlines(t) ==
    IF t # <<>> /\ t[Len(t)] = NL THEN rstrip_newlines(SubSeq(t, 1, Len(t) - 1)) ELSE t

has_timestamp(t, c) == \E i \in 1..Len(t) : t[i] = Stamp(c)

\* _inject_timestamp_if_missing
inject_timestamp_if_missing(rule_content, c) ==
    IF has_timestamp(rule_content, c) THEN rule_content
    ELSE rstrip_newlines(rule_content) \o <<NL, Stamp(c), NL>>

\* the blank-line padding written before the rule
spacing(text) ==
    LET current_pos == Len(text) IN
    IF current_pos = 0 THEN <<>>
    ELSE IF text[current_pos] # NL THEN <<NL, NL>>
    ELSE IF current_pos > 1 /\ text[current_pos - 1] # NL THEN <<NL>>
    ELSE <<>>

\* f.write(rule_with_timestamp) and the closing newline
rule_written(rule_with_timestamp) ==
    IF rule_with_timestamp[Len(rule_with_timestamp)] # NL
    THEN rule_with_timestamp \o <<NL>>
    ELSE rule_with_timestamp

\* the handle flushes its pending text at its own offset ('r+' mode)
write_at(text, pos, data) ==
    SubSeq(text, 1, pos) \o data \o SubSeq(text, pos + Len(data) + 1, Len(text))

\* if not _acquire_lock(f, timeout=5): return False
proceeds_regardless(acquired) == TRUE
proceeds_after_lock(acquired) == acquired

AppendFrame ==
    UNCHANGED <<storeVars, syncVars, engVars, matchVars, trackVars, scoreVars>>

\* the call up to the opening of the file
append_begin(p) ==
    /\ apc[p] = "idle"
    /\ acalls < MaxAppendCalls
    /\ acalls' = acalls + 1
    /\ \E shape \in RuleShapes :
        IF ~sop.exists
        THEN /\ apc' = [apc EXCEPT ![p] = "done"]
             /\ ares' = [ares EXCEPT ![p] = FALSE]
             /\ UNCHANGED atext
        ELSE /\ apc' = [apc EXCEPT ![p] = "lock"]
             /\ atext' = [atext EXCEPT
                            ![p] = inject_timestamp_if_missing(RuleContent(shape, acalls + 1),
                                                               acalls + 1)]
             /\ UNCHANGED ares
    /\ aelapsed' = [aelapsed EXCEPT ![p] = 0]
    /\ apos' = [apos EXCEPT ![p] = 0]
    /\ UNCHANGED <<sop, prior, lockHolder, abuf, accepted>>
    /\ AppendFrame

\* _acquire_lock: the non-blocking flock succeeds
append_lock_acquired(p) ==
    /\ apc[p] = "lock"
    /\ aelapsed[p] < LockTimeout
    /\ lockHolder = "none"
    /\ lockHolder' = p
    /\ apc' = [apc EXCEPT ![p] = IF proceeds_after_lock(TRUE) THEN "write" ELSE "close"]
    /\ UNCHANGED <<sop, prior, atext, abuf, apos, aelapsed, ares, acalls, accepted>>
    /\ AppendFrame

\* _acquire_lock: the lock is held elsewhere, sleep and retry
append_lock_retry(p) ==
    /\ apc[p] = "lock"
    /\ aelapsed[p] < LockTimeout
    /\ lockHolder # "none"
    /\ aelapsed' = [aelapsed EXCEPT ![p] = @ + 1]
    /\ UNCHANGED <<sop, prior, lockHolder, apc, atext, abuf, apos, ares, acalls, accepted>>
    /\ AppendFrame

\* _acquire_lock returns False after the timeout
append_lock_timeout(p) ==
    /\ apc[p] = "lock"
    /\ aelapsed[p] >= LockTimeout
    /\ IF proceeds_after_lock(FALSE)
       THEN apc' = [apc EXCEPT ![p] = "write"] /\ UNCHANGED ares
       ELSE apc' = [apc EXCEPT ![p] = "close"] /\ ares' = [ares EXCEPT ![p] = FALSE]
    /\ UNCHANGED <<sop, prior, lockHolder, atext, abuf, apos, aelapsed, acalls, accepted>>
    /\ AppendFrame

\* the padding (flushed by the seek back to the end) and f.write(rule)
append_write(p) ==
    /\ apc[p] = "write"
    /\ LET padded == sop.text \o spacing(sop.text) IN
        /\ sop' = File(padded)
        /\ apos' = [apos EXCEPT ![p] = Len(padded)]
    /\ abuf' = [abuf EXCEPT ![p] = rule_written(atext[p])]
    /\ apc' = [apc EXCEPT ![p] = "unlock"]
    /\ UNCHANGED <<prior, lockHolder, atext, aelapsed, ares, acalls, accepted>>
    /\ AppendFrame

ReleaseOutcomes == {"released", "flock_error"}

\* _release_lock: flock(LOCK_UN); its own error is logged and swallowed, and
\* the lock then stays on the handle
release_lock(holder, p, outcome) ==
    IF outcome = "released" /\ holder = p THEN "none" ELSE holder

handle_keeps_lock(holder, p) == holder

\* leaving the with block closes the handle, and a closed handle holds no lock
handle_closed(holder, p) == IF holder = p THEN "none" ELSE holder

\* f.seek or f.read raises (an IOError, or another exception such as a
\* decoding error) before anything is written: the finally clause releases
\* the lock and the except clause returns False
append_read_fails(p) ==
    /\ apc[p] = "write"
    /\ \E outcome \in ReleaseOutcomes :
            lockHolder' = release_lock(lockHolder, p, outcome)
    /\ ares' = [ares EXCEPT ![p] = FALSE]
    /\ apc' = [apc EXCEPT ![p] = "close"]
    /\ UNCHANGED <<sop, prior, atext, abuf, apos, aelapsed, acalls, accepted>>
    /\ AppendFrame

\* return True, and the finally clause: _release_lock(f)
append_unlock(p) ==
    /\ apc[p] = "unlock"
    /\ \E outcome \in ReleaseOutcomes :
            lockHolder' = release_lock(lockHolder, p, outcome)
    /\ ares' = [ares EXCEPT ![p] = TRUE]
    /\ apc' = [apc EXCEPT ![p] = "close"]
    /\ UNCHANGED <<sop, prior, atext, abuf, apos, aelapsed, acalls, accepted>>
    /\ AppendFrame

\* the end of the with block closes the handle, which flushes its pending text
append_close(p) ==
    /\ apc[p] = "close"
    /\ sop' = File(write_at(sop.text, apos[p], abuf[p]))
    /\ accepted' = IF ares[p] THEN accepted \cup {abuf[p]} ELSE accepted
    /\ abuf' = [abuf EXCEPT ![p] = <<>>]
    /\ lockHolder' = handle_closed(lockHolder, p)
    /\ apc' = [apc EXCEPT ![p] = "done"]
    /\ UNCHANGED <<prior, atext, apos, aelapsed, ares, acalls>>
    /\ AppendFrame

\* the caller has the return value
append_return(p) ==
    /\ apc[p] = "done"
    /\ apc' = [apc EXCEPT ![p] = "idle"]
    /\ atext' = [atext EXCEPT ![p] = <<>>]
    /\ aelapsed' = [aelapsed EXCEPT ![p] = 0]
    /\ apos' = [apos EXCEPT ![p] = 0]
    /\ ares' = [ares EXCEPT ![p] = FALSE]
    /\ UNCHANGED <<sop, prior, lockHolder, abuf, acalls, accepted>>
    /\ AppendFrame

\* before any append, the rule document being one of files
AppendInitFrom(files) ==
    /\ sop \in files
    /\ prior = sop.text
    /\ lockHolder = "none"
    /\ apc = [p \in Appenders |-> "idle"]
    /\ atext = [p \in Appenders |-> <<>>]
    /\ abuf = [p \in Appenders |-> <<>>]
    /\ apos = [p \in Appenders |-> 0]
    /\ aelapsed = [p \in Appenders |-> 0]
    /\ ares = [p \in Appenders |-> FALSE]
    /\ acalls = 0
    /\ accepted = {}

AppendInit == AppendInitFrom({MissingFile} \cup {File(t) : t \in InitialTexts})

AppendNext ==
    \/ \E p \in Appenders : append_begin(p)
    \/ \E p \in Appenders : append_lock_acquired(p)
    \/ \E p \in Appenders : append_lock_retry(p)
    \/ \E p \in Appenders : append_lock_timeout(p)
    \/ \E p \in Appenders : append_write(p)
    \/ \E p \in Appenders : append_read_fails(p)
    \/ \E p \in Appenders : append_unlock(p)
    \/ \E p \in Appenders : append_close(p)
    \/ \E p \in Appenders : append_return(p)

(***************************************************************************)
(* Decision engine: text and pattern matching.                             *)
(* A payee or a pattern is a sequence of tokens; a token is a word in one  *)
(* spelling, a blank, a colon, the wildcard star, or a regex                *)
(* metacharacter: the anchor "^" or an unbalanced "(".                     *)
(***************************************************************************)
Tokens == {"Acme", "acme", "Co", "co", "Transfer", "TRANSFER", "transfer",
           "Savings", "savings", " ", ":", "*", "^", "("}

\* str.lower() on one token
LowerOf(t) ==
    CASE t \in {"Acme", "acme"} -> "acme"
      [] t \in {"Co", "co"} -> "co"
      [] t \in {"Transfer", "TRANSFER", "transfer"} -> "transfer"
      [] t \in {"Savings", "savings"} -> "savings"
      [] OTHER -> t

\* str.lower()
lower(text) == [i \in 1..Len(text) |-> LowerOf(text[i])]

RECURSIVE rstrip_star(_)
\* str.rstrip('*')
rstrip_star(t) ==
    IF t # <<>> /\ t[Len(t)] = "*" THEN rstrip_star(SubSeq(t, 1, Len(t) - 1)) ELSE t

RECURSIVE lstrip_star(_)
lstrip_star(t) == IF t # <<>> /\ t[1] = "*" THEN lstrip_star(Tail(t)) ELSE t

\* str.strip('*')
strip_star(t) == lstrip_star(rstrip_star(t))

\* str.startswith
startswith(text, prefix) ==
    Len(prefix) <= Len(text) /\ SubSeq(text, 1, Len(prefix)) = prefix

\* the `in` operator on strings
contains(text, part) ==
    \E i \in 1..(Len(text) + 1) :
        i + Len(part) - 1 <= Len(text) /\ SubSeq(text, i, i + Len(part) - 1) = part

\* re.match(r'^Transfer\s*:', payee_name, re.IGNORECASE)
is_transfer(payee_name) ==
    /\ Len(payee_name) >= 2
    /\ LowerOf(payee_name[1]) = "transfer"
    /\ \E k \in 2..Len(payee_name) :
        /\ payee_name[k] = ":"
        /\ \A j \in 2..(k - 1) : payee_name[j] = " "

\* sop_loader.detect_pattern_type
detect_pattern_type(pattern) ==
    IF \E i \in 1..Len(pattern) : pattern[i] \in {"^", "("} THEN "regex"
    ELSE IF pattern[1] = "*" /\ pattern[Len(pattern)] = "*" /\ Len(pattern) > 2 THEN "contains"
    ELSE IF pattern[Len(pattern)] = "*" /\ pattern[1] # "*" THEN "prefix"
    ELSE "exact"

\* re.compile succeeds on the pattern
regex_compiles(pattern) == \A i \in 1..Len(pattern) : pattern[i] # "("

\* re.search(pattern, text) for a pattern that compiles
regex_search(pattern, text) ==
    IF pattern # <<>> /\ pattern[1] = "^" THEN startswith(text, Tail(pattern))
    ELSE contains(text, pattern)

\* a core pattern of the rule document as load_categorization_rules returns it
CorePattern(pattern, confidence, category) ==
    [pattern |-> pattern, pattern_type |-> detect_pattern_type(pattern),
     confidence |-> confidence, category |-> category]
\* a learned correction of the rule document
Correction(payee, correct_category) == [payee |-> payee, correct_category |-> correct_category]

TransferPayee == <<"Transfer", " ", ":", " ", "Savings">>

PatternPool ==
    { CorePattern(<<"acme">>, "High", "c_exact"),
      CorePattern(<<"acme", "*">>, "Medium", "c_prefix"),
      CorePattern(<<"*", "co", "*">>, "High", "c_contains"),
      CorePattern(<<"^", "Acme">>, "Low", "c_regex"),
      CorePattern(<<"(", "acme">>, "High", "c_broken"),
      CorePattern(TransferPayee, "High", "c_transfer") }

CorrectionPool == { Correction(<<"Acme">>, "u_acme"), Correction(TransferPayee, "u_transfer") }

RECURSIVE PatternLists(_)
PatternLists(n) ==
    IF n = 0 THEN {<<>>}
    ELSE PatternLists(n - 1) \cup
         {Append(l, c) : l \in {x \in PatternLists(n - 1) : Len(x) = n - 1}, c \in PatternPool}

RuleDocuments ==
    {[core_patterns |-> cp, user_corrections |-> uc] :
        cp \in PatternLists(MaxRules),
        uc \in {<<>>} \cup {<<c>> : c \in CorrectionPool}}

Payees == { <<>>, <<"Acme">>, <<"acme">>, <<"acme", " ", "Co">>, <<"Savings">>,
            TransferPayee, <<"TRANSFER", ":", "Savings">> }
Amounts == {-1000, 0, 1000}
Transactions ==
    {[id |-> "t1", payee_name |-> pn, amount |-> a] : pn \in Payees, a \in Amounts}
    \cup {[id |-> "", payee_name |-> <<"Acme">>, amount |-> -1000]}

(***************************************************************************)
(* Decision engine: the tiers.  Confidences are percentages.               *)
(***************************************************************************)
Engines == {"agent", "facade", "workflow"}
TIER_1_CONFIDENCE_THRESHOLD == 95
TIER_2_CONFIDENCE_THRESHOLD == 80
max_retries == 3

Decision(tier, category_name, confidence, method, manual) ==
    [tier |-> tier, category_name |-> category_name, confidence |-> confidence,
     method |-> method, requires_manual_review |-> manual]
NoDecision == Decision("none", "", 0, "", FALSE)

\* outcome of a tier or of a call: a Decision, nothing, or an exception
Returns(d) == [kind |-> "decision", decision |-> d, error |-> "none"]
Nothing == [kind |-> "none", decision |-> NoDecision, error |-> "none"]
Raises(e) == [kind |-> "raises", decision |-> NoDecision, error |-> e]

\* CategorizationAgent._validate_transaction
validate_transaction(t) == t.id # "" /\ t.payee_name # <<>>

\* the fixed confidence of a match strategy in _tier1_sop_match
strategy_confidence(pattern_type) ==
    CASE pattern_type = "exact" -> 100
      [] pattern_type = "prefix" -> 95
      [] pattern_type = "contains" -> 92
      [] OTHER -> 90

\* _tier1_sop_match: does the rule match the lowercased payee
agent_matched(rule, payee) ==
    LET pattern == lower(rule.pattern) IN
    CASE rule.pattern_type = "exact" -> payee = pattern
      [] rule.pattern_type = "prefix" -> startswith(payee, rstrip_star(pattern))
      [] rule.pattern_type = "contains" -> contains(payee, strip_star(pattern))
      [] rule.pattern_type = "regex" -> regex_compiles(pattern) /\ regex_search(pattern, payee)
      [] OTHER -> FALSE

\* CategorizationAgent._tier1_sop_match
tier1_sop_match(t, r) ==
    LET payee == lower(t.payee_name)
        cp == r.core_patterns
        hits == {i \in 1..Len(cp) : agent_matched(cp[i], payee)}
    IN  IF hits = {} THEN Nothing
        ELSE LET i == CHOOSE k \in hits : \A m \in hits : k <= m IN
             Returns(Decision("sop", cp[i].category,
                              strategy_confidence(cp[i].pattern_type),
                              cp[i].pattern_type, FALSE))

\* the confidence of a pattern's label in _check_sop_rules
label_confidence(confidence_str) ==
    CASE confidence_str = "High" -> 100
      [] confidence_str = "Medium" -> 85
      [] OTHER -> 70

\* _check_sop_rules: does the pattern match payee_name
workflow_matched(pattern, payee_name) ==
    LET pattern_str == pattern.pattern IN
    CASE pattern.pattern_type = "exact" -> payee_name = lower(pattern_str)
      [] pattern.pattern_type = "prefix" ->
            startswith(payee_name, rstrip_star(lower(pattern_str)))
      [] pattern.pattern_type = "contains" ->
            contains(payee_name, strip_star(lower(pattern_str)))
      [] pattern.pattern_type = "regex" ->
            regex_search(lower(pattern_str), lower(payee_name))
      [] OTHER -> FALSE

\* what the loop of _check_sop_rules does at one pattern
workflow_pattern_step(pattern, payee_name) ==
    IF pattern.pattern_type = "regex" /\ ~regex_compiles(pattern.pattern) THEN "raises"
    ELSE IF /\ workflow_matched(pattern, payee_name)
            /\ label_confidence(pattern.confidence) >= TIER_1_CONFIDENCE_THRESHOLD
         THEN "accept"
    ELSE "skip"

\* the transfer and inflow pre-check of _check_sop_rules
precheck(t) ==
    IF is_transfer(t.payee_name)
    THEN Returns(Decision("sop", "SKIP_TRANSFER", 100, "sop", FALSE))
    ELSE IF t.amount > 0
    THEN Returns(Decision("sop", "INFLOW_READY_TO_ASSIGN", 100, "sop", FALSE))
    ELSE Nothing

\* _check_sop_rules followed by the threshold test of _categorize_transaction
check_sop_rules(t, r) ==
    LET payee_name == t.payee_name
        uc == r.user_corrections
        cp == r.core_patterns
        corrected == {i \in 1..Len(uc) : lower(uc[i].payee) = lower(payee_name)}
        stops == {i \in 1..Len(cp) : workflow_pattern_step(cp[i], payee_name) # "skip"}
    IN  IF payee_name = <<>> THEN Nothing
        ELSE IF precheck(t).kind = "decision" THEN precheck(t)
        ELSE IF corrected # {}
        THEN LET i == CHOOSE k \in corrected : \A m \in corrected : k <= m IN
             Returns(Decision("sop", uc[i].correct_category, 100, "sop", FALSE))
        ELSE IF stops = {} THEN Nothing
        ELSE LET i == CHOOSE k \in stops : \A m \in stops : k <= m IN
             IF workflow_pattern_step(cp[i], payee_name) = "raises" THEN Raises("re.error")
             ELSE Returns(Decision("sop", cp[i].category,
                                   label_confidence(cp[i].confidence), "sop", FALSE))

\* what the Historical Matcher and analyze_transaction can do for a payee
NoHistory == [kind |-> "none", confidence |-> 0]
HistoryMatch(c) == [kind |-> "match", confidence |-> c]
HistoryFails == [kind |-> "raises", confidence |-> 0]
Histories == {NoHistory, HistoryFails} \cup {HistoryMatch(c) : c \in {50, 80, 95}}

\* pattern_analyzer._validate_transaction: find_historical_category is queried
matcher_queried(t) == t.payee_name # <<>>

\* CategorizationAgent._tier2_historical_match
tier2_historical_match(t, h) ==
    IF h.kind = "match" /\ ~(h.confidence < TIER_2_CONFIDENCE_THRESHOLD)
    THEN Returns(Decision("historical", "c_history", h.confidence, "historical", FALSE))
    ELSE Nothing

\* the historical step of _categorize_transaction
workflow_historical(t, h) ==
    IF ~matcher_queried(t) THEN Nothing
    ELSE IF h.kind = "raises" THEN Raises("Exception")
    ELSE IF h.kind = "match"
    THEN Returns(Decision("historical", "c_history", h.confidence, "historical", FALSE))
    ELSE Nothing

\* _manual_review_response, and the last return of _categorize_transaction
manual_review_response(method) == Decision("research", "Uncategorized", 0, method, TRUE)

\* the except clause of _tier3_research_and_reasoning
tier3_failure_propagates(e) == Raises(e)
tier3_on_failure(e) == Returns(manual_review_response("failed"))

\* what the reasoning provider can answer to one call
LLMResponse(kind, conf_type, confidence) ==
    [kind |-> kind, conf_type |-> conf_type, confidence |-> confidence]
LLMResponses ==
    { LLMResponse("json", "number", 75),
      LLMResponse("fenced_json", "number", 75),
      LLMResponse("json", "number", 150),
      LLMResponse("json", "text", 0),
      LLMResponse("json", "null", 0),
      LLMResponse("json_missing_field", "number", 75),
      LLMResponse("not_json", "number", 0),
      LLMResponse("error_429", "number", 0),
      LLMResponse("error_other", "number", 0) }

\* _call_claude_with_retry: '429' in error_str and attempt < max_retries - 1
retries_on_any_error(resp, n) ==
    resp.kind \in {"error_429", "error_other"} /\ n < max_retries - 1
retries(resp, n) == resp.kind = "error_429" /\ n < max_retries - 1

\* which step of the try block a response makes fail: the provider call,
\* json.loads, or the required-field check
research_failure(resp) ==
    CASE resp.kind \in {"error_429", "error_other"} -> "call_failed"
      [] resp.kind = "not_json" -> "parse_failed"
      [] resp.kind = "json_missing_field" -> "field_missing"
      [] OTHER -> "none"
ResearchFailures == {"call_failed", "parse_failed", "field_missing"}

\* the f-string '{confidence:.2%}' of the log line that ends the try block
format_percent(conf_type) ==
    CASE conf_type = "number" -> "ok"
      [] conf_type = "text" -> "ValueError"
      [] OTHER -> "TypeError"

\* the try block of _tier3_research_and_reasoning once the provider answered,
\* up to the required-field check
parse_research(resp) ==
    IF resp.kind \in {"json", "fenced_json"}
    THEN Returns(Decision("research", "c_research", resp.confidence, "claude", FALSE))
    ELSE Raises("ValueError")

\* the except clauses of RecommendationEngine.get_recommendation
facade_handles(e) ==
    IF e = "ValueError" THEN Raises(e) ELSE Returns(manual_review_response("failed"))

\* an outcome as the caller of the running entry point sees it
through_facade(eng, o) ==
    IF eng = "facade" /\ o.kind = "raises" THEN facade_handles(o.error) ELSE o

\* the lines of the rule_content learn_from_correction appends after the
\* section heading: only the first one is a bullet ("- **Key**: value")
Line(bullet, key, value) == [bullet |-> bullet, key |-> key, value |-> value]
correction_content(payee_name, correct_category_name) ==
    << Line(TRUE, "payee", payee_name),
       Line(FALSE, "correct_category", correct_category_name),
       Line(FALSE, "agent_initially_suggested", "x"),
       Line(FALSE, "reasoning", "x"),
       Line(FALSE, "confidence", "High"),
       Line(FALSE, "date_learned", "x") >>

\* load_categorization_rules: a line enters current_entry when it starts
\* with "- **"
every_line_parsed(line) == TRUE
line_parsed(line) == line.bullet

\* entry.get(key, default) of the entry load_categorization_rules builds
entry_get(lines, key, default) ==
    LET at == {i \in 1..Len(lines) : line_parsed(lines[i]) /\ lines[i].key = key} IN
    IF at = {} THEN default
    ELSE lines[CHOOSE i \in at : \A j \in at : j <= i].value

\* the user correction the loader makes of an appended entry
load_correction(lines) ==
    Correction(entry_get(lines, "payee", <<>>), entry_get(lines, "correct_category", "None"))

NoLearning == [payee_name |-> <<>>, correct_category_name |-> ""]
LearnedPayees == { <<"Acme">> }
LearnOutcomes == {"appended", "false", "raises"}

\* the rule document as loaded once the correction is in the file
with_learned(r, c) ==
    IF c = NoLearning THEN r
    ELSE [r EXCEPT !.user_corrections =
              Append(@, load_correction(
                            correction_content(c.payee_name, c.correct_category_name)))]

(***************************************************************************)
(* Decision engine: one call of categorize_transaction, get_recommendation *)
(* or _categorize_transaction                                              *)
(***************************************************************************)
EngineFrame ==
    UNCHANGED <<storeVars, syncVars, appVars, matchVars, trackVars, scoreVars>>

\* `if result: return result` after a tier
tier_never_decides(o) == FALSE
tier_decides(o) == o.kind = "decision"

\* the call ends with outcome o
EngineFinish(o) ==
    LET seen == through_facade(engine, o) IN
    /\ decision' = seen.decision
    /\ raised' = seen.error
    /\ epc' = "done"

\* the call and the validation of the transaction
engine_begin ==
    /\ epc = "idle"
    /\ \E eng \in Engines, t \in Transactions, r \in RuleDocuments, h \in Histories :
        /\ engine' = eng
        /\ txn' = t
        /\ sop_rules' = with_learned(r, learnt)
        /\ history' = h
        /\ IF eng # "workflow" /\ ~validate_transaction(t)
           THEN epc' = "done" /\ raised' = "ValueError"
           ELSE epc' = "tier1" /\ raised' = "none"
    /\ UNCHANGED <<attempt, waits, decision, histCalls, llmCalls, appendCalls, research, answers>>
    /\ UNCHANGED learnt
    /\ EngineFrame

\* tier 1: _tier1_sop_match, or _check_sop_rules
engine_tier1 ==
    /\ epc = "tier1"
    /\ LET o == IF engine = "workflow" THEN check_sop_rules(txn, sop_rules)
                ELSE tier1_sop_match(txn, sop_rules)
       IN IF tier_decides(o) \/ o.kind = "raises"
          THEN EngineFinish(o)
          ELSE epc' = "tier2" /\ UNCHANGED <<decision, raised>>
    /\ UNCHANGED <<engine, txn, sop_rules, history, attempt, waits,
                   histCalls, llmCalls, appendCalls, research, answers>>
    /\ UNCHANGED learnt
    /\ EngineFrame

\* tier 2: _tier2_historical_match, or analyze_transaction called by the workflow
engine_tier2 ==
    /\ epc = "tier2"
    /\ histCalls' = IF matcher_queried(txn) THEN histCalls + 1 ELSE histCalls
    /\ LET o == IF engine = "workflow" THEN workflow_historical(txn, history)
                ELSE tier2_historical_match(txn, history)
       IN IF tier_decides(o) \/ o.kind = "raises"
          THEN EngineFinish(o)
          ELSE epc' = "tier3" /\ UNCHANGED <<decision, raised>>
    /\ UNCHANGED <<engine, txn, sop_rules, history, attempt, waits,
                   llmCalls, appendCalls, research, answers>>
    /\ UNCHANGED learnt
    /\ EngineFrame

\* tier 3 up to the first provider call; the workflow returns manual review at once
engine_tier3 ==
    /\ epc = "tier3"
    /\ IF engine = "workflow"
       THEN /\ EngineFinish(Returns(manual_review_response("manual")))
            /\ UNCHANGED research
       ELSE \E categories_available \in BOOLEAN :
              IF categories_available
              THEN epc' = "llm" /\ UNCHANGED <<decision, raised, research>>
              ELSE /\ EngineFinish(Returns(manual_review_response("failed")))
                   /\ research' = "unavailable"
    /\ UNCHANGED <<engine, txn, sop_rules, history, attempt, waits,
                   histCalls, llmCalls, appendCalls, answers>>
    /\ UNCHANGED learnt
    /\ EngineFrame

\* one iteration of _call_claude_with_retry and, once it returned or raised,
\* the rest of _tier3_research_and_reasoning and of the call
engine_llm_attempt ==
    /\ epc = "llm"
    /\ llmCalls' = llmCalls + 1
    /\ \E resp \in LLMResponses :
        /\ answers' = Append(answers, resp.kind)
        /\ IF retries(resp, attempt)
           THEN /\ waits' = Append(waits, 2 ^ attempt)
                /\ attempt' = attempt + 1
                /\ UNCHANGED <<epc, decision, raised, appendCalls, research>>
           ELSE IF resp.kind \in {"error_429", "error_other"}
           THEN /\ EngineFinish(tier3_on_failure("Exception"))
                /\ research' = research_failure(resp)
                /\ UNCHANGED <<attempt, waits, appendCalls>>
           ELSE IF parse_research(resp).kind = "raises"
           THEN /\ EngineFinish(tier3_on_failure(parse_research(resp).error))
                /\ research' = research_failure(resp)
                /\ UNCHANGED <<attempt, waits, appendCalls>>
           ELSE /\ appendCalls' = appendCalls + 1
                /\ IF format_percent(resp.conf_type) = "ok"
                   THEN /\ EngineFinish(parse_research(resp))
                        /\ research' = "found"
                   ELSE /\ EngineFinish(tier3_on_failure(format_percent(resp.conf_type)))
                        /\ research' = "malformed"
                /\ UNCHANGED <<attempt, waits>>
    /\ UNCHANGED <<engine, txn, sop_rules, history, histCalls>>
    /\ UNCHANGED learnt
    /\ EngineFrame

\* the caller has the Decision or the exception
engine_return ==
    /\ epc = "done"
    /\ epc' = "idle"
    /\ engine' = "agent"
    /\ txn' = [id |-> "", payee_name |-> <<>>, amount |-> 0]
    /\ sop_rules' = [core_patterns |-> <<>>, user_corrections |-> <<>>]
    /\ history' = NoHistory
    /\ attempt' = 0
    /\ waits' = <<>>
    /\ decision' = NoDecision
    /\ raised' = "none"
    /\ histCalls' = 0
    /\ llmCalls' = 0
    /\ appendCalls' = 0
    /\ research' = "none"
    /\ answers' = <<>>
    /\ UNCHANGED learnt
    /\ EngineFrame

\* CategorizationAgent.learn_from_correction between two decisions
engine_learn ==
    /\ epc = "idle"
    /\ learnt = NoLearning
    /\ \E payee_name \in LearnedPayees, o \in LearnOutcomes :
        learnt' = IF o = "appended"
                     THEN [payee_name |-> payee_name, correct_category_name |-> "u_learned"]
                     ELSE NoLearning
    /\ UNCHANGED <<epc, engine, txn, sop_rules, history, attempt, waits, decision, raised,
                   histCalls, llmCalls, appendCalls, research, answers>>
    /\ EngineFrame

EngineInit ==
    /\ epc = "idle"
    /\ engine = "agent"
    /\ txn = [id |-> "", payee_name |-> <<>>, amount |-> 0]
    /\ sop_rules = [core_patterns |-> <<>>, user_corrections |-> <<>>]
    /\ history = NoHistory
    /\ attempt = 0
    /\ waits = <<>>
    /\ decision = NoDecision
    /\ raised = "none"
    /\ histCalls = 0
    /\ llmCalls = 0
    /\ appendCalls = 0
    /\ research = "none"
    /\ answers = <<>>
    /\ learnt = NoLearning

EngineNext ==
    \/ engine_begin
    \/ engine_tier1
    \/ engine_tier2
    \/ engine_tier3
    \/ engine_llm_attempt
    \/ engine_return
    \/ engine_learn

(***************************************************************************)
(* Historical matcher (atoms/historical_match.py,                          *)
(* molecules/pattern_analyzer.py). Confidences are in percent.             *)
(***************************************************************************)
\* Python values of the arguments: type and value
Str(s) == [type |-> "str", val |-> s]
NoneArg == [type |-> "none", val |-> ""]
Float(v) == [type |-> "float", val |-> v]
NotANumber == [type |-> "str", val |-> 0]

PayeeArgs == {Str(""), Str("Starbucks"), NoneArg}
AmountArgs == {NoneArg, [type |-> "int", val |-> "-45000"], Str("45.00")}
MinConfidences == {Float(v) : v \in {-10, 0, 50, 80, 100, 120}} \cup {NotANumber}

\* rows of the statistical store: the best candidate of a payee, or none
NoRow == [kind |-> "none", confidence |-> 0]
Row(c) == [kind |-> "match", confidence |-> c]
Candidates == {NoRow} \cup {Row(c) : c \in {30, 80, 95}}

\* what DatabaseConnection(), get_connection() and cursor.execute can do: the
\* credentials are missing, the store is unreachable, the query fails
DbOutcomes == {"ok", "no_credentials", "connect_fails", "query_fails"}

\* the exception of get_connection() leaves the matcher
DatabaseConnectionError == [kind |-> "raises", confidence |-> 0]

\* the SQL function find_historical_category(payee, amount, min_confidence)
\* of the statistical store
sql_find_historical_category(payee_name, amount, min_confidence, candidate) ==
    IF candidate.kind = "match" /\ candidate.confidence >= min_confidence
    THEN candidate
    ELSE NoRow

\* the third parameter of the query: float(min_confidence)
floor_dropped(min_confidence) == 0
floor_passed(min_confidence) == min_confidence.val

\* atoms/historical_match.py: find_historical_category
find_historical_category(payee_name, amount, min_confidence, db, candidate) ==
    IF payee_name.type # "str" \/ payee_name.val = "" THEN NoRow
    ELSE IF amount.type \notin {"none", "int"} THEN NoRow
    ELSE IF \/ min_confidence.type # "float"
            \/ min_confidence.val < 0
            \/ min_confidence.val > 100 THEN NoRow
    \* get_connection() raises in the try block, which returns None, and again
    \* in the finally clause, whose exception replaces the return value
    ELSE IF db = "connect_fails" THEN DatabaseConnectionError
    ELSE IF db # "ok" THEN NoRow
    ELSE sql_find_historical_category(payee_name.val, amount,
                                      floor_passed(min_confidence), candidate)

\* pattern_analyzer._validate_transaction, on typed arguments
analyzer_validate_transaction(t) == t.payee_name.type = "str" /\ t.payee_name.val # ""

\* the floor analyze_transaction calls the matcher with
analyze_floor == Float(0)

\* pattern_analyzer.analyze_transaction
analyze_transaction(t, db, candidate) ==
    IF ~analyzer_validate_transaction(t) THEN NoRow
    ELSE find_historical_category(t.payee_name, t.amount, analyze_floor, db, candidate)

NoLookup ==
    [caller |-> "none", payee_name |-> NoneArg, amount |-> NoneArg,
     min_confidence |-> Float(0), db |-> "ok"]

MatcherFrame ==
    UNCHANGED <<storeVars, syncVars, appVars, engVars, trackVars, scoreVars>>

\* a caller invokes find_historical_category
matcher_find ==
    /\ lookups < MaxLookups
    /\ \E payee_name \in PayeeArgs, amount \in AmountArgs,
          min_confidence \in MinConfidences, db \in DbOutcomes :
        /\ lookup' = [caller |-> "find_historical_category", payee_name |-> payee_name,
                      amount |-> amount, min_confidence |-> min_confidence, db |-> db]
        /\ found' = find_historical_category(payee_name, amount, min_confidence, db, best)
    /\ lookups' = lookups + 1
    /\ UNCHANGED best
    /\ MatcherFrame

\* a caller invokes analyze_transaction
matcher_analyze ==
    /\ lookups < MaxLookups
    /\ \E payee_name \in PayeeArgs, amount \in AmountArgs, db \in DbOutcomes :
        /\ lookup' = [caller |-> "analyze_transaction", payee_name |-> payee_name,
                      amount |-> amount, min_confidence |-> analyze_floor, db |-> db]
        /\ found' = analyze_transaction([payee_name |-> payee_name, amount |-> amount],
                                        db, best)
    /\ lookups' = lookups + 1
    /\ UNCHANGED best
    /\ MatcherFrame

MatcherAtRest ==
    /\ lookup = NoLookup
    /\ found = NoRow
    /\ lookups = 0

MatcherInitFrom(candidates) ==
    /\ best \in candidates
    /\ MatcherAtRest

MatcherInit == MatcherInitFrom(Candidates)

MatcherNext ==
    \/ matcher_find
    \/ matcher_analyze

(***************************************************************************)
(* Learning feedback: record_user_correction (molecules/learning_tracker.py *)
(* over atoms/db_upsert.py and molecules/sop_manager.py)                    *)
(***************************************************************************)
\* values of a required string argument: empty, non-empty, not a string
TextArgs == {Str(""), Str("x"), NoneArg}
ReasoningArgs == {NoneArg, Str("why")}

\* "not value or not isinstance(value, str)"
invalid_text(a) == a.type # "str" \/ a.val = ""

\* what DatabaseConnection().query does for the upsert statement
UpsertDbOutcomes == {"inserted", "updated", "connect_fails", "execute_fails"}

\* db_upsert._validate_transaction_data
required_fields == {"id", "account_id", "date", "amount", "budget_id"}
validate_transaction_data(txn_data) ==
    /\ required_fields \subseteq DOMAIN txn_data
    /\ "cleared" \in DOMAIN txn_data =>
           txn_data.cleared \in {"", "cleared", "uncleared", "reconciled"}

\* db_upsert.upsert_transaction: the 'status' of the dict it returns
upsert_transaction(txn_data, db) ==
    IF ~validate_transaction_data(txn_data) THEN "error"
    ELSE IF db \in {"inserted", "updated"} THEN db
    ELSE "error"

\* the txn_data record_user_correction builds
correction_txn_data(a) ==
    [id |-> a.transaction_id.val, category_id |-> a.user_correct_category_id.val,
     category_name |-> a.user_correct_category.val, user_corrected |-> TRUE]

\* record_user_correction: the upsert counts as done
upsert_succeeded(result_status) == result_status = "success"

\* sop_manager.update_sop_with_rule called with the given keyword arguments:
\* it takes sop_id and rule (required), validate and create_if_missing
update_sop_call(keywords) ==
    IF /\ {"sop_id", "rule"} \subseteq keywords
       /\ keywords \subseteq {"sop_id", "rule", "validate", "create_if_missing"}
    THEN "returns"
    ELSE "raises"

\* molecules/learning_tracker.py: record_user_correction
record_user_correction(a, db) ==
    IF \/ invalid_text(a.transaction_id)
       \/ invalid_text(a.agent_suggested_category)
       \/ invalid_text(a.user_correct_category)
       \/ invalid_text(a.user_correct_category_id)
       \/ invalid_text(a.payee_name)
    THEN [upsert |-> "not_called", sop |-> "not_called", returned |-> FALSE]
    ELSE LET result_status == upsert_transaction(correction_txn_data(a), db) IN
         IF ~upsert_succeeded(result_status)
         THEN [upsert |-> result_status, sop |-> "not_called", returned |-> FALSE]
         ELSE [upsert |-> result_status,
               sop |-> update_sop_call({"rule_type", "rule_data"}),
               returned |-> TRUE]

NoCorrection ==
    [transaction_id |-> NoneArg, agent_suggested_category |-> NoneArg,
     user_correct_category |-> NoneArg, user_correct_category_id |-> NoneArg,
     payee_name |-> NoneArg, reasoning |-> NoneArg, db |-> "inserted"]

TrackerFrame ==
    UNCHANGED <<storeVars, syncVars, appVars, engVars, matchVars, scoreVars>>

\* a caller invokes record_user_correction
tracker_record_user_correction ==
    /\ corrections < MaxCorrections
    /\ \E t \in TextArgs, s \in TextArgs, c \in TextArgs, i \in TextArgs, p \in TextArgs,
          r \in ReasoningArgs, db \in UpsertDbOutcomes :
        LET a == [transaction_id |-> t, agent_suggested_category |-> s,
                  user_correct_category |-> c, user_correct_category_id |-> i,
                  payee_name |-> p, reasoning |-> r, db |-> db]
        IN /\ correction' = a
           /\ recorded' = record_user_correction(a, db)
    /\ corrections' = corrections + 1
    /\ TrackerFrame

TrackerInit ==
    /\ correction = NoCorrection
    /\ recorded = [upsert |-> "not_called", sop |-> "not_called", returned |-> FALSE]
    /\ corrections = 0

TrackerNext == tracker_record_user_correction

(***************************************************************************)
(* Match scoring (molecules/sop_manager.py: _calculate_confidence and the  *)
(* priority boost of get_sop_match).  A confidence is the exact fraction   *)
(* num / den with den = 1000 * len(text) (1000 for an empty text); the     *)
(* floating-point sums of the code order the same way.                     *)
(***************************************************************************)
Strategies == {"exact", "prefix", "contains", "regex"}
Priorities == {0, 50, 100}

Min2(a, b) == IF a < b THEN a ELSE b

\* STRATEGY_CONFIDENCE.get(strategy, 0.5), in thousandths
STRATEGY_CONFIDENCE(strategy) ==
    CASE strategy = "exact" -> 1000
      [] strategy = "prefix" -> 900
      [] strategy = "contains" -> 800
      [] strategy = "regex" -> 700
      [] OTHER -> 500

\* the denominator of the confidences computed for a text
Den(text_len) == 1000 * (IF text_len > 0 THEN text_len ELSE 1)

\* min(0.1, length_ratio * 0.2), or 0.0 for an empty text
length_bonus(pattern_len, text_len) ==
    IF text_len > 0 THEN Min2(100 * text_len, 200 * pattern_len) ELSE 0

\* the clamp of a confidence to 1.0
unclamped(num, text_len) == num
clamp(num, text_len) == Min2(Den(text_len), num)

\* _calculate_confidence
calculate_confidence(strategy, pattern_len, text_len) ==
    clamp(STRATEGY_CONFIDENCE(strategy) * (Den(text_len) \div 1000)
              + length_bonus(pattern_len, text_len),
          text_len)

\* get_sop_match: confidence of a match after the priority boost
match_confidence(strategy, pattern_len, text_len, priority) ==
    clamp(calculate_confidence(strategy, pattern_len, text_len)
              + priority * (Den(text_len) \div 1000),
          text_len)

NotScored ==
    [pattern_len |-> 0, text_len |-> 0, priority |-> 0,
     confidence |-> [st \in Strategies |-> 0]]

ScoreFrame == UNCHANGED <<storeVars, syncVars, appVars, engVars, matchVars, trackVars>>

\* matches of one pattern length and priority, one per strategy, are scored
\* against a description
score_match ==
    /\ \E pattern_len \in 1..MaxLen, text_len \in 0..MaxLen, priority \in Priorities :
        scored' = [pattern_len |-> pattern_len, text_len |-> text_len,
                   priority |-> priority,
                   confidence |->
                       [st \in Strategies |->
                           match_confidence(st, pattern_len, text_len, priority)]]
    /\ ScoreFrame

ScoreInit == scored = NotScored

ScoreNext == score_match

(***************************************************************************)
(* Specifications                                                          *)
(***************************************************************************)
\* the subsystems at rest, for the specifications that do not exercise them
StoreAtRest == StoreInitFrom({Absent})
AppendAtRest == AppendInitFrom({MissingFile})

\* the initial states of each specification
MatcherIdle == MatcherInitFrom({NoRow})

InitStore ==
    StoreInit /\ SyncInit /\ AppendAtRest /\ EngineInit /\ MatcherIdle /\ TrackerInit /\ ScoreInit
InitSync ==
    StoreAtRest /\ SyncInit /\ AppendAtRest /\ EngineInit /\ MatcherIdle /\ TrackerInit /\ ScoreInit
InitAppend ==
    StoreAtRest /\ SyncInit /\ AppendInit /\ EngineInit /\ MatcherIdle /\ TrackerInit /\ ScoreInit
InitEngine ==
    StoreAtRest /\ SyncInit /\ AppendAtRest /\ EngineInit /\ MatcherIdle /\ TrackerInit /\ ScoreInit
InitMatcher ==
    StoreAtRest /\ SyncInit /\ AppendAtRest /\ EngineInit /\ MatcherInit /\ TrackerInit
    /\ ScoreInit
InitTracker ==
    StoreAtRest /\ SyncInit /\ AppendAtRest /\ EngineInit /\ MatcherIdle /\ TrackerInit
    /\ ScoreInit

SpecStore == InitStore /\ [][StoreNext]_vars
SpecSync == InitSync /\ [][SyncNext]_vars
SpecAppend == InitAppend /\ [][AppendNext]_vars
SpecEngine == InitEngine /\ [][EngineNext]_vars
SpecMatcher == InitMatcher /\ [][MatcherNext]_vars
InitScore ==
    StoreAtRest /\ SyncInit /\ AppendAtRest /\ EngineInit /\ MatcherIdle /\ TrackerInit
    /\ ScoreInit
SpecTracker == InitTracker /\ [][TrackerNext]_vars
SpecScore == InitScore /\ [][ScoreNext]_vars
\* the thread inside _call_claude_with_retry keeps running: messages.create
\* returns or raises, and time.sleep returns
SpecEngineFair == SpecEngine /\ WF_vars(engine_llm_attempt)

(***************************************************************************)
(* Rule store: properties                                                  *)
(***************************************************************************)
\* the finished call of u found the rule and presented another version than the stored one
StaleCall(u) ==
    /\ upc[u] = "done"
    /\ uexisting[u] # NoRule
    /\ uargs[u].version # uexisting[u].version

\* C1: an update of an existing rule id with a version that differs from the
\* stored version raises ConcurrentUpdateError, writes no file, and (no other
\* caller having replaced the document since the call started) leaves the whole
\* stored document exactly as it was when the call started.
C1_StaleUpdateRejected ==
    \A u \in Updaters :
        StaleCall(u) =>
            /\ uout[u] = "ConcurrentUpdateError"
            /\ ~fs[u].exists
            /\ ~interfered[u] => fs[TargetPath] = docAtCall[u]

C1_Witness ==
    \E u \in Updaters :
        /\ StaleCall(u)
        /\ uout[u] = "ConcurrentUpdateError"
        /\ ~interfered[u]
        /\ fs[TargetPath].exists
        /\ fs[TargetPath] = docAtCall[u]

\* C2 (as stated): of two overlapping updates of the same existing rule that
\* both present the stored version v, at most one returns success.
C2_AtMostOneSucceeds ==
    \A u, v \in Updaters :
        ( /\ u # v
          /\ upc[u] = "done" /\ upc[v] = "done"
          /\ interfered[u] \/ interfered[v]
          /\ uargs[u].sop_id = uargs[v].sop_id
          /\ uexisting[u] # NoRule /\ uexisting[u] = uexisting[v]
          /\ uargs[u].version = uexisting[u].version
          /\ uargs[v].version = uexisting[v].version )
        => ~(uout[u] = "ok" /\ uout[v] = "ok")

\* what a reader opening the target document now would get
TargetReadable == load_sop_rules(fs[TargetPath]).status = "ok"

\* the target document changes only by the rename of one caller's complete new document
TargetReplacedWhole ==
    fs'[TargetPath] # fs[TargetPath] =>
        \E u \in Updaters : upc[u] = "rename" /\ fs'[TargetPath] = Document(urules[u])

\* C8: while a save is in progress, or after it failed midway, a reader of the
\* target document gets a complete document: the previous one, or the new one
\* once the rename has happened; never a partially written one.
C8_AtomicSave == []TargetReadable /\ [][TargetReplacedWhole]_vars

C8_Witness ==
    \E u, v \in Updaters :
        /\ u # v
        /\ upc[u] = "dumping"
        /\ ~fs[u].closed /\ Len(fs[u].rules) < Len(urules[u])
        /\ upc[v] = "check"
        /\ uout[v] = "none"
        /\ fs[TargetPath].exists

(***************************************************************************)
(* Batch sync: properties                                                  *)
(***************************************************************************)
\* the loop has dealt with the change at position i
Processed(i) == i \in 1..Len(approved_changes) /\ i < sidx
\* the change at position i was sent to the ledger
Sent(i) == \E k \in 1..Len(ledgerCalls) : ledgerCalls[k] = i
HasError(e) == \E k \in 1..Len(errors) : errors[k] = e
\* a split change whose subtransaction amounts do not add up to its declared total
BadSplit(c) == c.is_split /\ subtransaction_sum(c.subtransactions) # c.amount
\* a change that passes every check made before the ledger call
Submittable(c) ==
    \/ ~c.is_split
    \/ c.subtransactions # <<>> /\ subtransaction_sum(c.subtransactions) = c.amount

AcceptedExample == SplitChange(TRUE, -15000, <<Sub(-10000), Sub(-5000)>>)
RejectedExample == SplitChange(TRUE, -15000, <<Sub(-10000), Sub(-6000)>>)

\* C4: a split change is sent to the ledger only if the integer sum of its
\* subtransaction amounts equals the declared total exactly; [-10000, -5000]
\* against -15000 is accepted and sent, [-10000, -6000] against -15000 is
\* rejected with a reported deviation of 1000 and without a ledger call.
C4_ExactSum ==
    \A i \in 1..Len(approved_changes) :
        Processed(i) =>
            /\ (approved_changes[i].is_split /\ Sent(i)) =>
                    subtransaction_sum(approved_changes[i].subtransactions)
                        = approved_changes[i].amount
            /\ approved_changes[i] = AcceptedExample =>
                    /\ Sent(i)
                    /\ \A k \in 1..Len(errors) :
                          errors[k].transaction_id = i => errors[k].type # "validation_error"
            /\ approved_changes[i] = RejectedExample =>
                    /\ ~Sent(i)
                    /\ HasError(SyncError(i, "validation_error", 1000))

C4_Witness ==
    /\ spc = "done"
    /\ \E i, j \in 1..Len(approved_changes) :
        /\ approved_changes[i] = AcceptedExample /\ Sent(i)
        /\ approved_changes[j] = RejectedExample /\ ~Sent(j)
        /\ HasError(SyncError(j, "validation_error", 1000))

(***************************************************************************)
(* Learned-rule append: properties                                         *)
(***************************************************************************)
\* the number of places where entry occurs in text as a run of characters
Occurrences(entry, text) ==
    Cardinality({i \in 1..Len(text) :
                    /\ i + Len(entry) - 1 <= Len(text)
                    /\ SubSeq(text, i, i + Len(entry) - 1) = entry})
\* no call is under way
Quiescent == \A p \in Appenders : apc[p] \in {"idle", "done"}

\* C9 (as stated): once the concurrent appends are over, the document holds
\* the entry of every call that returned success exactly once and whole, after
\* the prior content, which is unchanged.
C9_EveryAcceptedEntryPresent ==
    Quiescent =>
        /\ \A entry \in accepted : Occurrences(entry, sop.text) = 1
        /\ Len(sop.text) >= Len(prior)
        /\ SubSeq(sop.text, 1, Len(prior)) = prior

\* the appender p takes the step
Acts(p) == apc'[p] # apc[p] \/ aelapsed'[p] # aelapsed[p]

\* C10: a call that does not get the lock within the timeout returns failure
\* and writes nothing: it holds no pending text, none of its steps changes the
\* document, and it never takes the lock.
C10_TimeoutWritesNothing ==
    [][\A p \in Appenders :
        /\ (Acts(p) /\ apc[p] = "lock" /\ aelapsed[p] >= LockTimeout) =>
                /\ apc'[p] = "close" /\ ares'[p] = FALSE
                /\ abuf'[p] = <<>> /\ sop' = sop /\ lockHolder' = lockHolder
        /\ (Acts(p) /\ apc[p] = "close" /\ ~ares[p]) =>
                apc'[p] = "done" /\ ares'[p] = FALSE /\ sop' = sop
        /\ (Acts(p) /\ apc[p] \in {"idle", "lock"}) => sop' = sop /\ abuf'[p] = <<>>
      ]_vars

C10_Witness ==
    \E p, q \in Appenders :
        /\ p # q
        /\ apc[p] = "done" /\ ~ares[p] /\ aelapsed[p] >= LockTimeout
        /\ lockHolder = q
        /\ sop.exists

(***************************************************************************)
(* Decision engine: properties                                             *)
(***************************************************************************)
\* a call on a valid transaction has ended
Decided == epc = "done" /\ validate_transaction(txn)
\* what the rule tier of the running entry point makes of the transaction
RuleTierOutcome ==
    IF engine = "workflow" THEN check_sop_rules(txn, sop_rules)
    ELSE tier1_sop_match(txn, sop_rules)
\* no rule, no historical pattern and no research result was found
NothingFound ==
    /\ RuleTierOutcome.kind = "none"
    /\ history.kind = "none"
    /\ research \in {"none", "unavailable"} \cup ResearchFailures

\* C5 (as stated): every call on a valid transaction returns one Decision and
\* no exception reaches the caller.
C5_AlwaysOneDecision ==
    Decided => raised = "none" /\ decision # NoDecision

\* the part of C5 that holds: a call on a valid transaction for which no rule,
\* no historical pattern and no research result was found returns the
\* manual-review Decision of the research tier and raises nothing
NoMatchNeverRaises ==
    (Decided /\ NothingFound) =>
        /\ raised = "none"
        /\ decision.tier = "research"
        /\ decision.requires_manual_review

\* C6: when the rule tier accepts a rule for the payee, the Decision carries the
\* rule tier's label and the Historical Matcher is not called during that
\* decision, whatever history exists for the payee.
C6_RuleHitSkipsHistory ==
    (Decided /\ RuleTierOutcome.kind = "decision") =>
        /\ raised = "none"
        /\ decision = RuleTierOutcome.decision
        /\ decision.tier = "sop"
        /\ histCalls = 0

C6_Witness ==
    /\ Decided /\ RuleTierOutcome.kind = "decision"
    /\ engine = "agent"
    /\ history = HistoryMatch(95)
    /\ decision.tier = "sop" /\ histCalls = 0

\* C7 (as stated): a transaction whose payee is a transfer between accounts, or
\* whose amount is positive, gets the non-categorizable sentinel, and neither
\* the Historical Matcher nor the reasoning provider is called for it.
C7_TransferOrInflowStopsAtOnce ==
    (Decided /\ (is_transfer(txn.payee_name) \/ txn.amount > 0)) =>
        /\ decision.category_name \in {"SKIP_TRANSFER", "INFLOW_READY_TO_ASSIGN"}
        /\ histCalls = 0
        /\ llmCalls = 0

\* the step that processes one change, and what client.put answered to it
ItemStep == spc = "loop" /\ Len(outcomes') = Len(outcomes) + 1
AnsweredNow(resps) == ItemStep /\ outcomes'[Len(outcomes')].response \in resps
Answered(i, resps) == i \in 1..Len(outcomes) /\ outcomes[i].response \in resps
\* the loop went over every change after position i, and each of them that
\* passes the checks made before the ledger call was sent to the ledger
LaterItemsSubmitted(i) ==
    /\ spc = "done" => Len(outcomes) = Len(approved_changes)
    /\ \A j \in (i+1)..Len(outcomes) : Submittable(approved_changes[j]) => Sent(j)

\* C11: in a batch that passed input validation, a version conflict reported by
\* the ledger for one change adds exactly one to conflicts and leaves failed
\* (and succeeded) as they were, and the batch is not aborted: every later
\* change of the batch is still processed and submitted.
C11_ConflictStep ==
    AnsweredNow({YNABConflictError}) =>
        /\ counters'.conflicts = counters.conflicts + 1
        /\ counters'.failed = counters.failed
        /\ counters'.succeeded = counters.succeeded
        /\ spc' = "loop" /\ sidx' = sidx + 1
C11_ConflictContinues ==
    \A i \in 1..Len(outcomes) : Answered(i, {YNABConflictError}) => LaterItemsSubmitted(i)
C11_ConflictCountedBatchContinues == [][C11_ConflictStep]_vars /\ []C11_ConflictContinues

C11_Witness ==
    /\ spc = "done"
    /\ Len(approved_changes) = 2
    /\ Answered(1, {YNABConflictError})
    /\ counters.conflicts = 1 /\ counters.failed = 0
    /\ Sent(2) /\ counters.succeeded = 1

\* C12: in a batch that passed input validation, an unauthorized, not-found,
\* rate-limit or network error on one change adds exactly one to failed (and
\* nothing to the other counters), appends one error entry carrying that
\* change's transaction id, and the batch is not aborted: every later change
\* of the batch is still processed and submitted.
C12_ApiErrorStep ==
    AnsweredNow({"unauthorized", "not_found", "rate_limited", "network"}) =>
        /\ counters'.failed = counters.failed + 1
        /\ counters'.conflicts = counters.conflicts
        /\ counters'.succeeded = counters.succeeded
        /\ Len(errors') = Len(errors) + 1
        /\ SubSeq(errors', 1, Len(errors)) = errors
        /\ errors'[Len(errors')].transaction_id = sidx
        /\ spc' = "loop" /\ sidx' = sidx + 1
C12_ApiErrorContinues ==
    \A i \in 1..Len(outcomes) :
        Answered(i, {"unauthorized", "not_found", "rate_limited", "network"}) =>
            /\ LaterItemsSubmitted(i)
            /\ \E k \in 1..Len(errors) : errors[k].transaction_id = i
C12_ApiErrorCountedBatchContinues == [][C12_ApiErrorStep]_vars /\ []C12_ApiErrorContinues

C12_Witness ==
    /\ spc = "done"
    /\ Len(approved_changes) = 2
    /\ Answered(1, {"rate_limited"})
    /\ counters.failed = 1
    /\ HasError(SyncError(1, "api_error", 0))
    /\ Sent(2) /\ counters.succeeded = 1

\* C13: the status of every finished sync call, the calls rejected by input
\* validation included, is the value derived from the returned counters and
\* error list: "failed" if failed > 0 or (succeeded = 0 and total > 0),
\* otherwise "partial" if conflicts > 0 or an error was recorded, otherwise
\* "success".
C13_StatusDerived ==
    spc = "done" =>
        status = (IF counters.failed > 0 \/ (counters.succeeded = 0 /\ counters.total > 0)
                  THEN "failed"
                  ELSE IF counters.conflicts > 0 \/ errors # <<>> THEN "partial"
                  ELSE "success")

\* the call passed _validate_inputs
ValidatedBatch ==
    spc \in {"loop", "done"} /\ validate_inputs(budget_id # "", approved_changes).valid

\* C14: for a batch that passed input validation, total is the number of
\* changes of the batch and every processed change is counted in exactly one
\* of succeeded, failed and conflicts; once the batch is processed,
\* succeeded + failed + conflicts = total.
C14_CountersPartitionBatch ==
    ValidatedBatch =>
        /\ counters.total = Len(approved_changes)
        /\ counters.succeeded + counters.failed + counters.conflicts = sidx - 1
        /\ Len(outcomes) = sidx - 1
        /\ spc = "done" =>
              counters.succeeded + counters.failed + counters.conflicts = counters.total

C14_Witness ==
    /\ ValidatedBatch /\ spc = "done"
    /\ counters.total = 2
    /\ counters.conflicts = 1 /\ counters.failed = 1 /\ counters.succeeded = 0

\* the batch of the scenario: a single-category change with all its fields at
\* position i and a split change whose amounts do not add up at position j
ScenarioBatch(i, j) ==
    /\ ValidatedBatch /\ Len(approved_changes) = 2
    /\ {i, j} = {1, 2}
    /\ approved_changes[i] = SingleChange(TRUE)
    /\ BadSplit(approved_changes[j])
ErrorsNaming(i) == {k \in 1..Len(errors) : errors[k].transaction_id = i}

\* C15: for a batch of one valid single-category change and one split change
\* whose subtransaction amounts do not add up to the declared total, the
\* status of the finished call is "failed" and the error list has exactly one
\* entry, a validation_error naming the split change (the ledger accepting the
\* single change; a change the ledger itself rejects has its own entry).
C15_MixedBatchFailsWithOneError ==
    \A i, j \in 1..2 :
        (spc = "done" /\ ScenarioBatch(i, j)) =>
            /\ status = "failed"
            /\ Cardinality(ErrorsNaming(j)) = 1
            /\ \A k \in ErrorsNaming(j) : errors[k].type = "validation_error"
            /\ Answered(i, {"ok"}) => Len(errors) = 1
            /\ Len(errors) = 1 + Cardinality(ErrorsNaming(i))
            /\ Cardinality(ErrorsNaming(i)) = IF Answered(i, {"ok"}) THEN 0 ELSE 1

C15_Witness ==
    /\ spc = "done" /\ ScenarioBatch(1, 2)
    /\ approved_changes[2] = RejectedExample
    /\ Answered(1, {"ok"})
    /\ status = "failed"
    /\ errors = <<SyncError(2, "validation_error", 1000)>>

\* the change lacks its transaction id or a field required for its type
Incomplete(c) == ~c.has_id \/ ~c.fields_ok

\* C16: if any change of the batch lacks its id or a field required for its
\* type, the call makes no ledger call and no learning-feedback call for any
\* change of the batch: it is rejected before the loop starts.
C16_IncompleteItemNoIO ==
    (spc # "idle" /\ \E i \in 1..Len(approved_changes) : Incomplete(approved_changes[i])) =>
        /\ spc = "done"
        /\ ledgerCalls = <<>>
        /\ learnCalls = <<>>
        /\ outcomes = <<>>

C16_Witness ==
    /\ spc = "done" /\ budget_id # ""
    /\ Len(approved_changes) = 2
    /\ approved_changes[1] = SingleChange(TRUE)
    /\ approved_changes[2] = SplitChange(FALSE, -15000, <<>>)
    /\ ledgerCalls = <<>> /\ learnCalls = <<>>
    /\ status = "failed"

\* the ledger accepted change i and record_agent_decision then failed for it
LearningFailed(i) ==
    Answered(i, {"ok"}) /\ outcomes[i].learning \in {"false", "raises"}

\* C17: when a change was submitted to the ledger successfully and the
\* record_agent_decision call that follows fails, by returning False or by
\* raising, the change is still counted in succeeded, no error entry is added
\* for it, and processing continues with the next change.
C17_LearningFailureStep ==
    (AnsweredNow({"ok"}) /\ outcomes'[Len(outcomes')].learning \in {"false", "raises"}) =>
        /\ counters'.succeeded = counters.succeeded + 1
        /\ counters'.failed = counters.failed
        /\ counters'.conflicts = counters.conflicts
        /\ errors' = errors
        /\ spc' = "loop" /\ sidx' = sidx + 1
C17_LearningFailureHarmless ==
    \A i \in 1..Len(outcomes) :
        LearningFailed(i) =>
            /\ ErrorsNaming(i) = {}
            /\ LaterItemsSubmitted(i)
            /\ (spc = "done" /\ \A j \in 1..Len(outcomes) : Answered(j, {"ok"}))
                   => status = "success"
C17_LearningFailureKeepsSuccess ==
    [][C17_LearningFailureStep]_vars /\ []C17_LearningFailureHarmless

C17_Witness ==
    /\ spc = "done"
    /\ Len(approved_changes) = 2
    /\ LearningFailed(1) /\ outcomes[1].learning = "raises"
    /\ LearningFailed(2) /\ outcomes[2].learning = "false"
    /\ counters.succeeded = 2
    /\ errors = <<>>
    /\ status = "success"

\* the versions stored in document doc under rule id `id`
StoredVersions(doc, id) ==
    {doc.rules[k].version : k \in {n \in 1..Len(doc.rules) : doc.rules[n].id = id}}

\* C18: across any sequence and interleaving of updates, the version stored
\* for a rule id is at least 1 and never decreases.
C18_VersionStep ==
    \A id \in RuleIds :
        \A w \in StoredVersions(fs'[TargetPath], id) :
            /\ w >= 1
            /\ \A v \in StoredVersions(fs[TargetPath], id) : w >= v
C18_VersionNeverDecreases == [][C18_VersionStep]_vars

\* caller u is in a call that found the rule and presented the version it found
MatchingUpdate(u) ==
    /\ uexisting[u] # NoRule
    /\ uargs[u].version = uexisting[u].version

\* the version check of a matching update has just passed: the rule to store
\* has the found version plus one, the creation time of the found rule and the
\* clock reading of this moment as its update time
C19_BumpStep ==
    \A u \in Updaters :
        (upc[u] = "check" /\ upc'[u] = "save" /\ uexisting'[u] # NoRule) =>
            /\ urule[u].version = uexisting'[u].version
            /\ urule'[u].version = uexisting'[u].version + 1
            /\ urule'[u].created_at = uexisting'[u].created_at
            /\ urule'[u].updated_at = now'
            /\ urule'[u].updated_at >= uexisting'[u].updated_at
\* the rename that ends a matching update: the document stored from now on
\* holds that rule in the place of the found one, which (no other caller having
\* replaced the document meanwhile) was the rule stored until now
C19_StoreStep ==
    \A u \in Updaters :
        (upc[u] = "rename" /\ upc'[u] = "done" /\ uout'[u] = "ok" /\ uexisting[u] # NoRule) =>
            /\ MatchingUpdate(u)
            /\ \E k \in 1..Len(fs'[TargetPath].rules) :
                  /\ fs'[TargetPath].rules[k] = urule[u]
                  /\ ~interfered[u] =>
                        /\ k <= Len(fs[TargetPath].rules)
                        /\ fs[TargetPath].rules[k] = uexisting[u]
                        /\ fs'[TargetPath].rules[k].version = fs[TargetPath].rules[k].version + 1
                        /\ fs'[TargetPath].rules[k].created_at = fs[TargetPath].rules[k].created_at

\* C19: a successful update of an existing rule with the matching version
\* stores the rule with the previously stored version plus exactly one, with
\* the created_at of the original rule and with updated_at set anew from the
\* clock.
C19_MatchingUpdateBumps == [][C19_BumpStep /\ C19_StoreStep]_vars

C19_Witness ==
    \E u \in Updaters :
        /\ upc[u] = "done" /\ uout[u] = "ok" /\ ~interfered[u]
        /\ MatchingUpdate(u)
        /\ uexisting[u].version = 1 /\ uexisting[u].updated_at = 0
        /\ \E k \in 1..Len(fs[TargetPath].rules) :
              /\ fs[TargetPath].rules[k] = urule[u]
              /\ fs[TargetPath].rules[k].version = 2
              /\ fs[TargetPath].rules[k].created_at = 0
              /\ fs[TargetPath].rules[k].updated_at = 1

\* C20: after any sequence of creations and updates, the calls whose rule
\* carries another id than the sop_id argument included, no two rules of the
\* stored document have the same id.
C20_StoredIdsUnique ==
    \A j, k \in 1..Len(fs[TargetPath].rules) :
        fs[TargetPath].rules[j].id = fs[TargetPath].rules[k].id => j = k

\* C21: the id of a stored rule never changes: when a successful update of
\* sop_id replaces the rule it found under sop_id, the rule stored in its place
\* still has the id sop_id.
C21_IdStep ==
    \A u \in Updaters :
        (upc[u] = "rename" /\ upc'[u] = "done" /\ uout'[u] = "ok" /\ uexisting[u] # NoRule) =>
            \E k \in 1..Len(fs'[TargetPath].rules) :
                /\ fs'[TargetPath].rules[k] = urule[u]
                /\ fs'[TargetPath].rules[k].id = uargs[u].sop_id
C21_IdNeverChanges == [][C21_IdStep]_vars

\* the id is not among the rules of document doc
Unknown(doc, sop_id) == \A k \in 1..Len(doc.rules) : doc.rules[k].id # sop_id

\* the step that looks for sop_id in the loaded rules, does not find it and
\* may not create it: the call ends with the not-found error (KeyError) and
\* no file is touched
C22_NotFoundStep ==
    \A u \in Updaters :
        ( /\ upc[u] = "check"
          /\ existing_index(urules[u], uargs[u].sop_id) = 0
          /\ ~uargs[u].create_if_missing
          /\ upc'[u] # upc[u] ) =>
            /\ upc'[u] = "done" /\ uout'[u] = "KeyError"
            /\ fs' = fs
\* C22: an update of an id that is not in the store with create_if_missing
\* false fails with the not-found error (KeyError in the code) and leaves the
\* stored document as it was; it writes no file at all.
C22_NotFoundLeft ==
    \A u \in Updaters :
        /\ (upc[u] = "done" /\ uout[u] = "KeyError") =>
              /\ ~fs[u].exists
              /\ ~interfered[u] => fs[TargetPath] = docAtCall[u]
        /\ ( /\ upc[u] = "done" /\ ~interfered[u]
             /\ uargs[u].sop_id \in RuleIds
             /\ Unknown(docAtCall[u], uargs[u].sop_id)
             /\ ~uargs[u].create_if_missing ) => uout[u] = "KeyError"
C22_UnknownIdRejected == [][C22_NotFoundStep]_vars /\ []C22_NotFoundLeft

C22_Witness ==
    \E u \in Updaters :
        /\ upc[u] = "done" /\ uout[u] = "KeyError" /\ ~interfered[u]
        /\ uargs[u].sop_id = "b" /\ ~uargs[u].create_if_missing
        /\ fs[TargetPath] = Document(<<InitialRule>>)
        /\ fs[TargetPath] = docAtCall[u]

\* C23: in the research tier, a failure of the provider call, of parsing its
\* response or of the required-field check yields the manual-review sentinel
\* (confidence 0, tier research, flagged for manual review) and no exception
\* reaches the caller.
C23_ResearchFailureGivesSentinel ==
    (epc = "done" /\ research \in ResearchFailures) =>
        /\ raised = "none"
        /\ decision = manual_review_response("failed")
        /\ decision.confidence = 0
        /\ decision.tier = "research"
        /\ decision.requires_manual_review

C23_Witness ==
    /\ epc = "done" /\ engine = "agent"
    /\ research = "field_missing"
    /\ llmCalls = 1
    /\ raised = "none"
    /\ decision.requires_manual_review /\ decision.confidence = 0

\* the attempts made so far for this decision: every attempt but the last one
\* ended in a rate-limit failure and was followed by a wait of 2^(k-1) seconds
RetriesOnlyAfterRateLimit ==
    /\ llmCalls <= max_retries
    /\ Len(answers) = llmCalls
    /\ \A k \in 1..(Len(answers) - 1) : answers[k] = "error_429"
    /\ Len(waits) = IF epc = "llm" THEN Len(answers) ELSE
                    IF answers = <<>> THEN 0 ELSE Len(answers) - 1
    /\ \A k \in 1..Len(waits) : waits[k] = 2 ^ (k - 1)
    /\ \A k \in 1..(Len(waits) - 1) : waits[k + 1] = 2 * waits[k]
    /\ epc = "llm" => attempt = Len(answers) /\ attempt < max_retries
\* a failure that is not a rate limit, and the third rate limit, end the attempts
OtherFailureEndsAttempts ==
    \A k \in 1..Len(answers) :
        (answers[k] # "error_429" \/ k = max_retries) => (k = Len(answers) /\ epc # "llm")

\* C24: for one decision the reasoning provider is called at most 3 times; a
\* further attempt is made only after a rate-limit failure and only after a
\* wait that doubles each time (1 s, 2 s); any other failure ends the attempts
\* at once; and the retry loop always terminates.
C24_BoundedBackoff ==
    /\ [](RetriesOnlyAfterRateLimit /\ OtherFailureEndsAttempts)
    /\ (epc = "llm") ~> (epc = "done")

C24_Witness ==
    /\ epc = "done"
    /\ answers = <<"error_429", "error_429", "error_429">>
    /\ llmCalls = 3
    /\ waits = <<1, 2>>
    /\ decision.requires_manual_review

\* C25: every Decision of the rule tier has a confidence at or above the high
\* threshold (0.95): a pattern that matches with a lower confidence never
\* yields a rule-tier Decision, the transaction goes on to the historical tier.
C25_RuleTierAtOrAboveThreshold ==
    (epc = "done" /\ decision.tier = "sop") =>
        decision.confidence >= TIER_1_CONFIDENCE_THRESHOLD

\* the rule tier of the running entry point: does pattern p match the payee of
\* the transaction, and with which confidence
PatternHit(p) ==
    IF engine = "workflow" THEN workflow_matched(p, txn.payee_name)
    ELSE agent_matched(p, lower(txn.payee_name))
PatternConfidence(p) ==
    IF engine = "workflow" THEN label_confidence(p.confidence)
    ELSE strategy_confidence(p.pattern_type)
\* positions of the patterns that match at or above the high threshold
Qualifying ==
    {i \in 1..Len(sop_rules.core_patterns) :
        /\ PatternHit(sop_rules.core_patterns[i])
        /\ PatternConfidence(sop_rules.core_patterns[i]) >= TIER_1_CONFIDENCE_THRESHOLD}
\* positions of the learned corrections whose payee is the transaction's payee
CorrectionHits ==
    {i \in 1..Len(sop_rules.user_corrections) :
        lower(sop_rules.user_corrections[i].payee) = lower(txn.payee_name)}
\* the finished call returned a rule-tier Decision that stems from a pattern
DecidedByPattern ==
    /\ epc = "done" /\ decision.tier = "sop"
    /\ engine = "workflow" => (precheck(txn).kind = "none" /\ CorrectionHits = {})

\* C26: the rule-tier Decision comes from the first pattern, in the declared
\* order of the rule document, that matches with a confidence at or above the
\* threshold, also when a later pattern matches the payee with a higher
\* confidence; matches are not reordered by confidence.
C26_FirstQualifyingPatternWins ==
    DecidedByPattern =>
        /\ Qualifying # {}
        /\ \E i \in Qualifying :
              /\ \A m \in Qualifying : i <= m
              /\ decision.category_name = sop_rules.core_patterns[i].category
              /\ decision.confidence = PatternConfidence(sop_rules.core_patterns[i])

\* the part of C26 that holds for every entry point: the Decision comes from
\* the first pattern in declared order among those the tier accepts
FirstAcceptedInDeclaredOrder ==
    DecidedByPattern =>
        \E i \in 1..Len(sop_rules.core_patterns) :
            /\ PatternHit(sop_rules.core_patterns[i])
            /\ decision.category_name = sop_rules.core_patterns[i].category
            /\ \A m \in 1..(i - 1) :
                  ~(/\ PatternHit(sop_rules.core_patterns[m])
                    /\ (engine = "workflow" =>
                          PatternConfidence(sop_rules.core_patterns[m])
                              >= TIER_1_CONFIDENCE_THRESHOLD))

\* C27: when the payee of the transaction equals, case-insensitively, the
\* payee of a learned correction and also matches a rule pattern, the
\* rule-tier Decision carries the category of the learned correction, not the
\* category of the pattern (transfers and inflows, which are decided before
\* any rule content is looked at, set aside).
C27_CorrectionBeforePattern ==
    ( /\ Decided
      /\ ~is_transfer(txn.payee_name) /\ txn.amount <= 0
      /\ CorrectionHits # {}
      /\ \E i \in 1..Len(sop_rules.core_patterns) : PatternHit(sop_rules.core_patterns[i]) )
    => /\ raised = "none"
       /\ decision.tier = "sop"
       /\ \E i \in CorrectionHits :
             /\ \A m \in CorrectionHits : i <= m
             /\ decision.category_name = sop_rules.user_corrections[i].correct_category

\* C28: a transaction with payee "Transfer : Savings" is always flagged
\* non-categorizable (the SKIP_TRANSFER marker) and never receives a category
\* from the rule tier, also when a learned correction or a rule pattern
\* matches that payee exactly.
C28_TransferNeverCategorized ==
    (Decided /\ txn.payee_name = TransferPayee) =>
        /\ raised = "none"
        /\ decision.tier = "sop" => decision.category_name = "SKIP_TRANSFER"
        /\ \A i \in 1..Len(sop_rules.core_patterns) :
              decision.category_name # sop_rules.core_patterns[i].category
        /\ \A i \in 1..Len(sop_rules.user_corrections) :
              decision.category_name # sop_rules.user_corrections[i].correct_category

\* C29: the Historical Matcher never returns a result whose confidence is below
\* the min_confidence it was called with, and it returns none when the best
\* candidate of the statistical store is below that floor (with the store
\* unreachable the call raises, and returns no result either).
BelowFloor ==
    /\ lookups > 0
    /\ best.kind = "match"
    /\ lookup.min_confidence.type = "float"
    /\ best.confidence < lookup.min_confidence.val

UpsertFailed == recorded.upsert = "error"
UpsertDone == recorded.upsert \in {"inserted", "updated", "success"}

C30_FailureExactlyWhenUpsertFails ==
    corrections > 0 =>
        /\ (recorded.returned = FALSE) <=> UpsertFailed
        /\ UpsertDone => recorded.returned = TRUE

\* no call of record_user_correction reports success: the upsert it issues
\* lacks the fields upsert_transaction requires
CorrectionNeverSucceeds == recorded.returned = FALSE /\ ~UpsertDone

\* the call ended with a research-tier Decision that carries a category
ResearchSucceeded ==
    /\ epc = "done" /\ raised = "none"
    /\ decision.tier = "research" /\ ~decision.requires_manual_review
\* the call ended with the manual-review sentinel of the research tier
ResearchSentinel ==
    /\ epc = "done" /\ raised = "none"
    /\ decision.tier = "research" /\ decision.requires_manual_review

\* C31: every successful research-tier Decision is preceded, within the same
\* engine call, by an attempt to append a web-sourced learned rule to the rule
\* document, and no such append is attempted when the research tier ends in
\* the manual-review sentinel.
C31_AppendExactlyOnResearchSuccess ==
    /\ ResearchSucceeded => appendCalls = 1
    /\ ResearchSentinel => appendCalls = 0

\* the half of C31 that holds: a successful research-tier Decision was
\* preceded by one append attempt
SuccessfulResearchAppended == ResearchSucceeded => appendCalls = 1

\* the rule document of the call holds a regex pattern that does not compile
BrokenRegexLoaded ==
    \E i \in 1..Len(sop_rules.core_patterns) :
        /\ sop_rules.core_patterns[i].pattern_type = "regex"
        /\ ~regex_compiles(sop_rules.core_patterns[i].pattern)

\* C32: matching a payee against a rule whose regex pattern does not compile
\* never raises; the pattern counts as not matching and the call goes on with
\* the remaining patterns and tiers.
C32_InvalidRegexNeverRaises ==
    (epc = "done" /\ BrokenRegexLoaded) => raised # "re.error"

\* the agent's rule tier does skip a pattern that does not compile
AgentSkipsBrokenRegex ==
    (epc = "done" /\ engine # "workflow" /\ BrokenRegexLoaded) => raised # "re.error"

Scored == scored # NotScored

\* C33: for any fixed description length, pattern length and priority, the
\* final clamped confidence of an exact match is strictly greater than that of
\* a prefix match, which is strictly greater than that of a contains match,
\* which is strictly greater than that of a regex match.
C33_StrictStrategyOrder ==
    Scored =>
        /\ scored.confidence["exact"] > scored.confidence["prefix"]
        /\ scored.confidence["prefix"] > scored.confidence["contains"]
        /\ scored.confidence["contains"] > scored.confidence["regex"]

\* what holds instead: the order is never inverted, and two strategies tie
\* only when both are clamped to 1.0
StrategyOrderUpToClamp ==
    Scored =>
        \A pair \in {<<"exact", "prefix">>, <<"prefix", "contains">>,
                     <<"contains", "regex">>} :
            /\ scored.confidence[pair[1]] >= scored.confidence[pair[2]]
            /\ scored.confidence[pair[2]] < Den(scored.text_len) =>
                   scored.confidence[pair[1]] > scored.confidence[pair[2]]

\* the rule caller u stored is in the rule document
ChangeStored(u) ==
    \E k \in 1..Len(fs[TargetPath].rules) : fs[TargetPath].rules[k] = urule[u]

\* C34: a successful update or creation of one rule is never undone by a
\* concurrent successful update or creation of a different rule: once both
\* calls have returned success, the stored rule set contains both changes.
C34_BothChangesStored ==
    \A u, v \in Updaters :
        ( /\ u # v
          /\ upc[u] = "done" /\ upc[v] = "done"
          /\ uout[u] = "ok" /\ uout[v] = "ok"
          /\ uargs[u].sop_id # uargs[v].sop_id )
        => ChangeStored(u) /\ ChangeStored(v)

\* without overlap the two changes are both kept
SequentialChangesStored ==
    \A u, v \in Updaters :
        ( /\ u # v
          /\ upc[u] = "done" /\ upc[v] = "done"
          /\ uout[u] = "ok" /\ uout[v] = "ok"
          /\ uargs[u].sop_id # uargs[v].sop_id
          /\ ~interfered[u] /\ ~interfered[v] )
        => ChangeStored(u) /\ ChangeStored(v)

\* a decision on the payee of the learned correction, made after the
\* correction was appended to the rule document
DecidedAfterCorrection ==
    /\ Decided
    /\ learnt # NoLearning
    /\ txn.payee_name = learnt.payee_name

\* C35: after a correction was recorded for a payee with no store failure,
\* the next Decision Engine call for a transaction with the same payee is
\* decided at the rule tier with the corrected category.
C35_CorrectionDecidesNextCall ==
    DecidedAfterCorrection =>
        /\ raised = "none"
        /\ decision.tier = "sop"
        /\ decision.category_name = learnt.correct_category_name

\* what the workflow makes of the learned entry: a rule-tier Decision whose
\* category is missing
WorkflowSeesLearnedPayeeOnly ==
    (DecidedAfterCorrection /\ engine = "workflow" /\ txn.amount <= 0
        /\ sop_rules.user_corrections = <<load_correction(
               correction_content(learnt.payee_name, learnt.correct_category_name))>>)
    => decision.tier = "sop" /\ decision.category_name = "None"

\* the call of p got the lock and then failed: it returned False, although
\* the document exists and the lock wait did not run out
FailedAfterLock(p) ==
    apc[p] = "done" /\ ~ares[p] /\ sop.exists /\ aelapsed[p] < LockTimeout

\* C36: an append that acquired the document lock has released it by the
\* time it returns, on success, on a read or write error and on an unexpected
\* exception alike: no returned call holds the lock, so a later appender is
\* never blocked by a finished one.
C36_LockReleasedBeforeReturn ==
    \A p \in Appenders : apc[p] \in {"done", "idle"} => lockHolder # p

C36_Witness ==
    \E p, q \in Appenders :
        /\ p # q
        /\ FailedAfterLock(p)
        /\ lockHolder = q

\* C37: in a batch that passed input validation, the errors list has exactly
\* one entry for every processed change that did not succeed and none for a
\* change counted in succeeded; its length is failed + conflicts, and every
\* entry carries the id of a change of the batch.
C37_OneErrorPerUnsuccessfulItem ==
    ValidatedBatch =>
        /\ Len(errors) = counters.failed + counters.conflicts
        /\ \A k \in 1..Len(errors) : Processed(errors[k].transaction_id)
        /\ \A i \in 1..Len(outcomes) :
              Cardinality(ErrorsNaming(i)) = IF Answered(i, {"ok"}) THEN 0 ELSE 1
        /\ counters.succeeded
              = Cardinality({i \in 1..Len(outcomes) : Answered(i, {"ok"})})

C37_Witness ==
    /\ ValidatedBatch /\ spc = "done"
    /\ Len(approved_changes) = 2
    /\ Answered(1, {YNABConflictError})
    /\ LearningFailed(2)
    /\ errors = <<SyncError(1, "conflict", 0)>>
    /\ counters.succeeded = 1 /\ counters.conflicts = 1

\* C38: every Decision of the historical tier has a confidence at or above
\* the historical floor of 0.80; a historical candidate below the floor counts
\* as no match, and the call goes on to the research tier.
C38_HistoricalAtOrAboveFloor ==
    (epc = "done" /\ raised = "none" /\ decision.tier = "historical") =>
        decision.confidence >= TIER_2_CONFIDENCE_THRESHOLD

\* the agent and the facade do keep the floor
AgentHistoricalAtOrAboveFloor ==
    (epc = "done" /\ raised = "none" /\ engine # "workflow"
        /\ decision.tier = "historical") =>
        decision.confidence >= TIER_2_CONFIDENCE_THRESHOLD

\* the historical tier was reached and the Historical Matcher raised
MatcherFailed == epc = "done" /\ histCalls > 0 /\ history = HistoryFails

\* C39: when the Historical Matcher fails with an exception, the call treats
\* it as no match, goes on to the research tier and returns a Decision; no
\* exception reaches the caller.
C39_MatcherFailureFallsThrough ==
    MatcherFailed => (raised = "none" /\ decision.tier = "research")

\* the agent and the facade do fall through
AgentSurvivesMatcherFailure ==
    (MatcherFailed /\ engine # "workflow") =>
        (raised = "none" /\ decision.tier = "research")

\* C40: every returned Decision, of any tier, has a confidence within [0, 1]
\* (0..100 in hundredths), research-tier Decisions with the confidence of the
\* reasoning provider's response included.
C40_ConfidenceInUnitInterval ==
    (epc = "done" /\ raised = "none") => decision.confidence \in 0..100

\* outside the agent's research tier the confidence is in range
OtherTiersInUnitInterval ==
    (epc = "done" /\ raised = "none"
        /\ ~(decision.tier = "research" /\ ~decision.requires_manual_review)) =>
        decision.confidence \in 0..100

====
